---- MODULE Spec2Model ----
(***************************************************************************)
(* Model of the download-history engine of ytd:                            *)
(*   ytd/history/storage.py  identifier normalizer and event store         *)
(*   ytd/downloader.py       retry loop and its history writes             *)
(*   ytd/cli.py              history decision driver                       *)
(*                                                                         *)
(* A Python str is a sequence of one-character strings; None and "" (both  *)
(* falsy, and tested alike wherever the code tests them) are << >>.        *)
(* Every other optional value is a tuple too, None being NULL = << >>.     *)
(***************************************************************************)
EXTENDS Integers, Sequences, FiniteSets, TLC

EMPTY == << >>
NULL == << >>

(***************************************************************************)
(* Characters.  Chars lists the characters of the model in code-point      *)
(* order, Codes their code points (for str comparison and %XX decoding).   *)
(***************************************************************************)
Chars ==
  << " ", "#", "%", "&", "+", "-", ".", "/", "0", "1", "2", "3", "4", "5", "6",
     "7", "8", "9", ":", ";", "=", "?", "A", "B", "C", "D", "E", "F", "G", "H",
     "I", "J", "K", "L", "M", "N", "O", "P", "Q", "R", "S", "T", "U", "V", "W",
     "X", "Y", "Z", "_", "a", "b", "c", "d", "e", "f", "g", "h", "i", "j", "k",
     "l", "m", "n", "o", "p", "q", "r", "s", "t", "u", "v", "w", "x", "y", "z" >>

Codes ==
  << 32, 35, 37, 38, 43, 45, 46, 47, 48, 49, 50, 51, 52, 53, 54, 55, 56, 57,
     58, 59, 61, 63, 65, 66, 67, 68, 69, 70, 71, 72, 73, 74, 75, 76, 77, 78,
     79, 80, 81, 82, 83, 84, 85, 86, 87, 88, 89, 90, 95, 97, 98, 99, 100, 101,
     102, 103, 104, 105, 106, 107, 108, 109, 110, 111, 112, 113, 114, 115,
     116, 117, 118, 119, 120, 121, 122 >>

Digits == {"0", "1", "2", "3", "4", "5", "6", "7", "8", "9"}

UpperLetters ==
  {"A", "B", "C", "D", "E", "F", "G", "H", "I", "J", "K", "L", "M",
   "N", "O", "P", "Q", "R", "S", "T", "U", "V", "W", "X", "Y", "Z"}

LowerLetters ==
  {"a", "b", "c", "d", "e", "f", "g", "h", "i", "j", "k", "l", "m",
   "n", "o", "p", "q", "r", "s", "t", "u", "v", "w", "x", "y", "z"}

\* ord(c)
CodeOf(c) == Codes[CHOOSE i \in 1..Len(Codes) : Chars[i] = c]

\* str.lower() on one character: code point + 32 for A-Z.
LowerChar(c) ==
  IF c \in UpperLetters
    THEN CHOOSE d \in LowerLetters : CodeOf(d) = CodeOf(c) + 32
    ELSE c

Lower(s) == [i \in 1..Len(s) |-> LowerChar(s[i])]

\* str comparison s < t: lexicographic by code point.
RECURSIVE StrLess(_, _)
StrLess(s, t) ==
  IF t = EMPTY THEN FALSE
  ELSE IF s = EMPTY THEN TRUE
  ELSE IF s[1] # t[1] THEN CodeOf(s[1]) < CodeOf(t[1])
  ELSE StrLess(Tail(s), Tail(t))

\* str.strip(): the only whitespace of the model is the space.
RECURSIVE LStrip(_)
LStrip(s) == IF s # EMPTY /\ s[1] = " " THEN LStrip(Tail(s)) ELSE s

RECURSIVE RStrip(_)
RStrip(s) ==
  IF s # EMPTY /\ s[Len(s)] = " " THEN RStrip(SubSeq(s, 1, Len(s) - 1)) ELSE s

Strip(s) == RStrip(LStrip(s))

\* lit occurs in s at position i.
MatchAt(s, i, lit) ==
  /\ i >= 1
  /\ i + Len(lit) - 1 <= Len(s)
  /\ \A k \in 1..Len(lit) : s[i + k - 1] = lit[k]

\* `lit in s`
Contains(s, lit) == \E i \in 1..Len(s) : MatchAt(s, i, lit)

\* s.find(c, start): least position >= start holding c, 0 when there is none.
FindFrom(s, c, start) ==
  IF \E i \in start..Len(s) : s[i] = c
    THEN CHOOSE i \in start..Len(s) :
           s[i] = c /\ \A j \in start..(i - 1) : s[j] # c
    ELSE 0

Find(s, c) == FindFrom(s, c, 1)

\* s.rfind(c): greatest position holding c, 0 when there is none.
RFind(s, c) ==
  IF \E i \in 1..Len(s) : s[i] = c
    THEN CHOOSE i \in 1..Len(s) :
           s[i] = c /\ \A j \in (i + 1)..Len(s) : s[j] # c
    ELSE 0

\* s.split(sep): the pieces between occurrences of the character sep.
RECURSIVE Split(_, _)
Split(s, sep) ==
  LET i == Find(s, sep)
  IN IF i = 0 THEN << s >>
     ELSE << SubSeq(s, 1, i - 1) >> \o Split(SubSeq(s, i + 1, Len(s)), sep)

\* sep.join(parts)
RECURSIVE Join(_, _)
Join(parts, sep) ==
  IF parts = EMPTY THEN EMPTY
  ELSE IF Len(parts) = 1 THEN parts[1]
  ELSE parts[1] \o << sep >> \o Join(Tail(parts), sep)

\* `a or b` on str/None values
Or(a, b) == IF a # EMPTY THEN a ELSE b

(***************************************************************************)
(* Identifier normalizer (storage.py 458-534).                             *)
(***************************************************************************)
\* the {11} of _YT_ID_RE and of every capture group
YtIdLen == 11

\* the character class [A-Za-z0-9_-]
IdChars == UpperLetters \cup LowerLetters \cup Digits \cup {"_", "-"}

\* [A-Za-z0-9_-]{11} matches at position i
IdRunAt(s, i) ==
  /\ i >= 1
  /\ i + YtIdLen - 1 <= Len(s)
  /\ \A k \in 0..(YtIdLen - 1) : s[i + k] \in IdChars

\* _YT_ID_RE.fullmatch
YT_ID_RE_fullmatch(s) == Len(s) = YtIdLen /\ IdRunAt(s, 1)

\* the patterns if the first one accepted v= only right after the "?"
YT_VIDEO_ID_PATTERNS_NoAmp ==
  << {<<"?","v","=">>},
     {<<"y","o","u","t","u",".","b","e","/">>},
     {<<"y","o","u","t","u","b","e",".","c","o","m","/","s","h","o","r","t","s","/">>, <<"y","o","u","t","u","b","e",".","c","o","m","/","e","m","b","e","d","/">>, <<"y","o","u","t","u","b","e",".","c","o","m","/","l","i","v","e","/">>} >>

\* The three patterns of _YT_VIDEO_ID_PATTERNS, each as the set of literal
\* prefixes that precede its capture group.
YT_VIDEO_ID_PATTERNS ==
  << {<<"?","v","=">>, <<"&","v","=">>},
     {<<"y","o","u","t","u",".","b","e","/">>},
     {<<"y","o","u","t","u","b","e",".","c","o","m","/","s","h","o","r","t","s","/">>, <<"y","o","u","t","u","b","e",".","c","o","m","/","e","m","b","e","d","/">>, <<"y","o","u","t","u","b","e",".","c","o","m","/","l","i","v","e","/">>} >>

PatternMatchesAt(prefixes, s, i) ==
  \E p \in prefixes : MatchAt(s, i, p) /\ IdRunAt(s, i + Len(p))

\* group(1) of the match at position i
GroupAt(prefixes, s, i) ==
  LET n == Len(CHOOSE p \in prefixes : PatternMatchesAt({p}, s, i))
  IN SubSeq(s, i + n, i + n + YtIdLen - 1)

\* pattern.search(s): group(1) of the leftmost match, EMPTY when none.
RECURSIVE PatternSearch(_, _, _)
PatternSearch(prefixes, s, i) ==
  IF i > Len(s) THEN EMPTY
  ELSE IF PatternMatchesAt(prefixes, s, i) THEN GroupAt(prefixes, s, i)
  ELSE PatternSearch(prefixes, s, i + 1)

\* the for loop of _extract_youtube_id over the patterns from index n on
RECURSIVE FirstPatternMatch(_, _, _)
FirstPatternMatch(patterns, s, n) ==
  IF n > Len(patterns) THEN EMPTY
  ELSE Or(PatternSearch(patterns[n], s, 1),
          FirstPatternMatch(patterns, s, n + 1))

\* _extract_youtube_id after candidate.strip()
IdOfStripped(stripped) ==
  IF YT_ID_RE_fullmatch(stripped) THEN stripped
  ELSE FirstPatternMatch(YT_VIDEO_ID_PATTERNS, stripped, 1)

extract_youtube_id(candidate) ==
  IF candidate = EMPTY THEN EMPTY ELSE IdOfStripped(Strip(candidate))

(***************************************************************************)
(* urllib.parse as _normalize_url uses it: urlparse, parse_qsl (with       *)
(* keep_blank_values), unquote, urlunparse.  urlparse works in stages,     *)
(* each taking what the stage before left: rest is the text not yet split. *)
(***************************************************************************)
SchemeChars == UpperLetters \cup LowerLetters \cup Digits \cup {"+", "-", "."}

UsesParams ==
  { EMPTY, <<"f","t","p">>, <<"h","d","l">>, <<"p","r","o","s","p","e","r","o">>, <<"h","t","t","p">>, <<"i","m","a","p">>, <<"h","t","t","p","s">>, <<"s","h","t","t","p">>,
    <<"r","t","s","p">>, <<"r","t","s","p","s">>, <<"r","t","s","p","u">>, <<"s","i","p">>, <<"s","i","p","s">>, <<"m","m","s">>, <<"s","f","t","p">>, <<"t","e","l">> }

\* urlsplit: the text before the first ":" is the scheme when it starts
\* with a letter and holds scheme characters only
SplitScheme(url) ==
  LET c == Find(url, ":")
  IN IF /\ c > 1
        /\ url[1] \in UpperLetters \cup LowerLetters
        /\ \A k \in 1..(c - 1) : url[k] \in SchemeChars
       THEN [scheme |-> Lower(SubSeq(url, 1, c - 1)),
             rest |-> SubSeq(url, c + 1, Len(url))]
       ELSE [scheme |-> EMPTY, rest |-> url]

\* _splitnetloc(url, 2): the end of the network location is the first of
\* "/", "?", "#" after the leading "//", or the end of the string.
NetlocEnd(url) ==
  LET ds == {i \in 3..Len(url) : url[i] \in {"/", "?", "#"}}
  IN IF ds = {} THEN Len(url) + 1
     ELSE CHOOSE i \in ds : \A j \in ds : i <= j

NetlocUpTo(r, e) ==
  [scheme |-> r.scheme, netloc |-> SubSeq(r.rest, 3, e - 1),
   rest |-> SubSeq(r.rest, e, Len(r.rest))]

SplitNetloc(r) ==
  IF MatchAt(r.rest, 1, << "/", "/" >>)
    THEN NetlocUpTo(r, NetlocEnd(r.rest))
    ELSE [scheme |-> r.scheme, netloc |-> EMPTY, rest |-> r.rest]

\* url.split("#", 1): the fragment is dropped
DropFragment(r) ==
  LET h == Find(r.rest, "#")
  IN IF h > 0 THEN [r EXCEPT !.rest = SubSeq(@, 1, h - 1)] ELSE r

\* url.split("?", 1)
SplitQuery(r) ==
  LET qm == Find(r.rest, "?")
  IN [scheme |-> r.scheme, netloc |-> r.netloc,
      path |-> IF qm > 0 THEN SubSeq(r.rest, 1, qm - 1) ELSE r.rest,
      query |-> IF qm > 0 THEN SubSeq(r.rest, qm + 1, Len(r.rest))
                ELSE EMPTY]

\* _splitparams: the position of the ";" that starts the parameters, or 0
ParamsAt(path) ==
  IF Contains(path, << "/" >>)
    THEN FindFrom(path, ";", RFind(path, "/"))
    ELSE Find(path, ";")

PathUpTo(r, sc) == IF sc > 0 THEN [r EXCEPT !.path = SubSeq(@, 1, sc - 1)] ELSE r

SplitParams(r) ==
  IF r.scheme \in UsesParams /\ Contains(r.path, << ";" >>)
    THEN PathUpTo(r, ParamsAt(r.path))
    ELSE r

\* urlparse(url) for a stripped url: [scheme, netloc, path, query]
\* (params and fragment are split off and never read by the caller).
urlparse(url) ==
  SplitParams(SplitQuery(DropFragment(SplitNetloc(SplitScheme(LStrip(url))))))

HexDigits ==
  Digits \cup {"A", "B", "C", "D", "E", "F", "a", "b", "c", "d", "e", "f"}

\* int(c, 16)
HexVal(c) ==
  CodeOf(c) - (IF c \in Digits THEN 48 ELSE IF c \in UpperLetters THEN 55 ELSE 87)

\* the character a leading %XX of s denotes: a set of at most one element,
\* empty when s does not start with an escape of a character of Chars
Escaped(s) ==
  IF /\ Len(s) >= 3
     /\ s[1] = "%"
     /\ s[2] \in HexDigits
     /\ s[3] \in HexDigits
    THEN {Chars[i] : i \in {j \in 1..Len(Codes) :
                              Codes[j] = 16 * HexVal(s[2]) + HexVal(s[3])}}
    ELSE {}

\* unquote: %XX becomes the character with that code; the escapes of the
\* model's inputs all denote characters of Chars.
RECURSIVE Unquote(_)
UnquoteHead(s, chs) ==
  IF chs # {}
    THEN << CHOOSE ch \in chs : TRUE >> \o Unquote(SubSeq(s, 4, Len(s)))
    ELSE << s[1] >> \o Unquote(Tail(s))

Unquote(s) == IF s = EMPTY THEN EMPTY ELSE UnquoteHead(s, Escaped(s))

\* s.replace("+", " ")
PlusToSpace(s) == [i \in 1..Len(s) |-> IF s[i] = "+" THEN " " ELSE s[i]]

\* name_value.split("=", 1), a missing value being ""
NameValue(nv, eq) ==
  IF eq > 0 THEN << SubSeq(nv, 1, eq - 1), SubSeq(nv, eq + 1, Len(nv)) >>
  ELSE << nv, EMPTY >>

\* unquote(x.replace("+", " ")) on the name and on the value
Decoded(pair) == [i \in 1..2 |-> Unquote(PlusToSpace(pair[i]))]

\* the body of parse_qsl's loop for one name_value piece
RECURSIVE ParseFields(_)
ParseFields(pieces) ==
  IF pieces = EMPTY THEN EMPTY
  ELSE (IF pieces[1] = EMPTY THEN << >>
        ELSE << Decoded(NameValue(pieces[1], Find(pieces[1], "="))) >>)
       \o ParseFields(Tail(pieces))

\* parse_qsl(qs, keep_blank_values=True)
parse_qsl(qs) == IF qs = EMPTY THEN EMPTY ELSE ParseFields(Split(qs, "&"))

\* tuple comparison a <= b of sorted(), on the flattened (key, value) pairs
RECURSIVE TupleLeq(_, _)
TupleLeq(a, b) ==
  IF a = << >> THEN TRUE
  ELSE IF a[1] = b[1] THEN TupleLeq(Tail(a), Tail(b))
  ELSE StrLess(a[1], b[1])

\* sorted(items, key=lambda item: (item[0], item[1])): stable insertion
RECURSIVE InsertSorted(_, _)
InsertSorted(sortedItems, x) ==
  IF sortedItems = EMPTY THEN << x >>
  ELSE IF TupleLeq(sortedItems[1], x)
    THEN << sortedItems[1] >> \o InsertSorted(Tail(sortedItems), x)
    ELSE << x >> \o sortedItems

\* the query items left in the order of the URL
SortItems_Unsorted(items) == items

\* sorted(query_items, key=lambda item: (item[0], item[1]))
RECURSIVE SortItems(_)
SortItems(items) ==
  IF items = EMPTY THEN EMPTY
  ELSE InsertSorted(SortItems(SubSeq(items, 1, Len(items) - 1)), items[Len(items)])

\* "&".join(f"{key}={value}" for key, value in items)
FormatItems(items) ==
  Join([i \in 1..Len(items) |-> items[i][1] \o << "=" >> \o items[i][2]], "&")

\* the query of the normalized URL: "" when parse_qsl yields no item
SortedQuery(items) ==
  IF items # EMPTY THEN FormatItems(SortItems(items)) ELSE EMPTY

\* re.sub(r"/+", "/", path)
RECURSIVE CollapseSlashes(_)
CollapseSlashes(p) ==
  IF Len(p) < 2 THEN p
  ELSE IF p[1] = "/" /\ p[2] = "/" THEN CollapseSlashes(Tail(p))
  ELSE << p[1] >> \o CollapseSlashes(Tail(p))

\* urlunparse((scheme, netloc, path, "", query, "")) for a non-empty netloc
urlunparse(scheme, netloc, path, query) ==
  (IF scheme # EMPTY THEN scheme \o << ":" >> ELSE EMPTY)
  \o << "/", "/" >> \o netloc
  \o (IF path # EMPTY /\ path[1] # "/" THEN << "/" >> ELSE EMPTY) \o path
  \o (IF query # EMPTY THEN << "?" >> \o query ELSE EMPTY)

\* `if "://" not in candidate and "." in candidate`
GuessScheme(trimmed) ==
  IF ~Contains(trimmed, <<":","/","/">>) /\ Contains(trimmed, << "." >>)
    THEN <<"h","t","t","p","s">> \o <<":","/","/">> \o trimmed
    ELSE trimmed

\* normalized.endswith("?")
DropTrailingQuestion(u) ==
  IF u[Len(u)] = "?" THEN SubSeq(u, 1, Len(u) - 1) ELSE u

\* the normalized URL of a parse result with a network location
Rebuild(parsed) ==
  IF parsed.netloc = EMPTY THEN EMPTY
  ELSE DropTrailingQuestion(
         urlunparse(Or(parsed.scheme, <<"h","t","t","p","s">>),
                    Lower(parsed.netloc),
                    Or(CollapseSlashes(parsed.path), << "/" >>),
                    SortedQuery(parse_qsl(parsed.query))))

NormalizeTrimmed(trimmed) ==
  IF trimmed = EMPTY THEN EMPTY ELSE Rebuild(urlparse(GuessScheme(trimmed)))

\* _normalize_url; EMPTY stands for the None it returns
normalize_url(candidate) == NormalizeTrimmed(Strip(candidate))

YT_PREFIX == <<"y","t",":">>

YtKey(yt_id) == IF yt_id # EMPTY THEN YT_PREFIX \o yt_id ELSE EMPTY

KeyOfStripped(candidate) ==
  IF candidate = EMPTY THEN EMPTY
  ELSE Or(YtKey(extract_youtube_id(candidate)),
          Or(normalize_url(candidate), candidate))

\* normalize_history_id; EMPTY stands for None
normalize_history_id(value) ==
  IF value = EMPTY THEN EMPTY ELSE KeyOfStripped(Strip(value))

(***************************************************************************)
(* Event store (storage.py 15-157, 331-409).  A str/None scalar of a row   *)
(* or event is a tuple, None being << >>.  A datetime is <<second,         *)
(* microsecond>>; the ISO-8601 text of second precision that the store     *)
(* keeps is <<second>> (texts of one format compare as their seconds do).  *)
(* The table is the sequence of its rows in rowid order.                   *)
(***************************************************************************)
IN_PROGRESS == << "in_progress" >>
SUCCESS == << "success" >>
FAILED == << "failed" >>
FINISHED == << "finished" >>
\* a status as a metadata log may spell it; its lower-case form is FAILED
FAILED_CAPS == << "FAILED" >>

\* (entry.get("status") or "").lower()
StatusLower(status) == IF status = FAILED_CAPS THEN FAILED ELSE status

COALESCE(a, b) == IF a # NULL THEN a ELSE b

\* value.isoformat(timespec="seconds")
normalize_datetime(value) == IF value = NULL THEN NULL ELSE << value[1] >>

\* str(Path(value)): events carry Path objects, whose text is kept as it is
normalize_path(value) == IF value = NULL THEN NULL ELSE value

\* normalize_history_id(a) or normalize_history_id(b), for cands = <<a, b>>
RECURSIVE NormalizedFirst(_)
NormalizedFirst(cands) ==
  IF cands = << >> THEN EMPTY
  ELSE Or(normalize_history_id(cands[1]), NormalizedFirst(Tail(cands)))

\* the row's primary key: normalized_id or fallback_id
EventKey(event) ==
  Or(NormalizedFirst(<< event.video_id, event.url >>),
     Or(event.video_id, event.url))

\* the payload dict of record_event
Payload(event) ==
  [ video_id |-> EventKey(event),
    url |-> event.url,
    title |-> event.title,
    status |-> event.status,
    started_at |-> normalize_datetime(event.started_at),
    finished_at |-> normalize_datetime(event.finished_at),
    file_path |-> normalize_path(event.file_path),
    error |-> event.error,
    playlist_id |-> event.playlist_id,
    playlist_title |-> event.playlist_title ]

\* INSERT of the ten named columns: retry_count takes DEFAULT 0 and
\* last_action stays NULL
InsertedRow(p) ==
  [ video_id |-> p.video_id, url |-> p.url, title |-> p.title,
    status |-> p.status, started_at |-> p.started_at,
    finished_at |-> p.finished_at, file_path |-> p.file_path,
    error |-> p.error, playlist_id |-> p.playlist_id,
    playlist_title |-> p.playlist_title,
    retry_count |-> << 0 >>, last_action |-> NULL ]

\* a migration that builds the table anew
AddColumns_Recreate(table) == << >>

\* ensure_schema on a table that exists: ALTER TABLE downloads ADD COLUMN
\* retry_count INTEGER DEFAULT 0 / last_action TEXT when the table lacks
\* them.  A row of a table without the two columns is written with both
\* fields << >>; once the columns are added it reads 0 and NULL.
AddColumns(table) ==
  [i \in DOMAIN table |->
     IF table[i].retry_count = NULL
       THEN [table[i] EXCEPT !.retry_count = << 0 >>]
       ELSE table[i]]

\* INSERT OR REPLACE: the conflicting row gives way to a fresh one
OnConflictUpdate_InsertOrReplace(row, excluded) == InsertedRow(excluded)

\* an update that replaces every column, nulls included
OnConflictUpdate_Replace(row, excluded) ==
  [ row EXCEPT
      !.url = excluded.url,
      !.title = excluded.title,
      !.status = excluded.status,
      !.started_at = excluded.started_at,
      !.finished_at = excluded.finished_at,
      !.file_path = excluded.file_path,
      !.error = excluded.error,
      !.playlist_id = excluded.playlist_id,
      !.playlist_title = excluded.playlist_title ]

\* an update that coalesces status like the other columns
OnConflictUpdate_KeepStatus(row, excluded) ==
  [ row EXCEPT
      !.url = excluded.url,
      !.title = COALESCE(excluded.title, row.title),
      !.status = COALESCE(row.status, excluded.status),
      !.started_at = COALESCE(excluded.started_at, row.started_at),
      !.finished_at = COALESCE(excluded.finished_at, row.finished_at),
      !.file_path = COALESCE(excluded.file_path, row.file_path),
      !.error = COALESCE(excluded.error, row.error),
      !.playlist_id = COALESCE(excluded.playlist_id, row.playlist_id),
      !.playlist_title = COALESCE(excluded.playlist_title, row.playlist_title) ]

\* an update that coalesces url like the other columns and so keeps the url
\* stored first
OnConflictUpdate_KeepUrl(row, excluded) ==
  [ row EXCEPT
      !.url = COALESCE(row.url, excluded.url),
      !.title = COALESCE(excluded.title, row.title),
      !.status = excluded.status,
      !.started_at = COALESCE(excluded.started_at, row.started_at),
      !.finished_at = COALESCE(excluded.finished_at, row.finished_at),
      !.file_path = COALESCE(excluded.file_path, row.file_path),
      !.error = COALESCE(excluded.error, row.error),
      !.playlist_id = COALESCE(excluded.playlist_id, row.playlist_id),
      !.playlist_title = COALESCE(excluded.playlist_title, row.playlist_title) ]

\* ON CONFLICT(video_id) DO UPDATE SET ... of record_event
OnConflictUpdate(row, excluded) ==
  [ row EXCEPT
      !.url = excluded.url,
      !.title = COALESCE(excluded.title, row.title),
      !.status = excluded.status,
      !.started_at = COALESCE(excluded.started_at, row.started_at),
      !.finished_at = COALESCE(excluded.finished_at, row.finished_at),
      !.file_path = COALESCE(excluded.file_path, row.file_path),
      !.error = COALESCE(excluded.error, row.error),
      !.playlist_id = COALESCE(excluded.playlist_id, row.playlist_id),
      !.playlist_title = COALESCE(excluded.playlist_title, row.playlist_title) ]

\* positions of the rows with primary key k
RowsWithKey(table, k) == {i \in 1..Len(table) : table[i].video_id = k}

\* INSERT OR REPLACE on a table whose url is unique as well: the rows that
\* conflict on either column are deleted
Upsert_ReplaceByUrl(table, p) ==
  Append(SelectSeq(table, LAMBDA r : r.video_id # p.video_id /\ r.url # p.url),
         InsertedRow(p))

\* an insert without the conflict clause
Upsert_AlwaysInsert(table, p) == Append(table, InsertedRow(p))

\* INSERT ... ON CONFLICT(video_id) DO UPDATE
Upsert(table, p) ==
  IF RowsWithKey(table, p.video_id) # {}
    THEN [i \in 1..Len(table) |->
            IF table[i].video_id = p.video_id
              THEN OnConflictUpdate(table[i], p) ELSE table[i]]
    ELSE Append(table, InsertedRow(p))

\* record_event once the connection is open: the table after the upsert
record_event(table, event) == Upsert(table, Payload(event))

\* a WHERE clause that ignores video_id
Matches_UrlOnly(row, video_id, url) == url # EMPTY /\ row.url = url

\* WHERE video_id = :video_id OR url = :url, each condition only for a
\* truthy argument
Matches(row, video_id, url) ==
  \/ video_id # EMPTY /\ row.video_id = video_id
  \/ url # EMPTY /\ row.url = url

\* an order that puts the rows without finished_at first
FinishedBefore_NullsFirst(a, b) ==
  \/ a.finished_at = NULL /\ b.finished_at # NULL
  \/ /\ a.finished_at # NULL /\ b.finished_at # NULL
     /\ a.finished_at[1] > b.finished_at[1]

\* ORDER BY finished_at DESC NULLS LAST: row a sorts before row b
FinishedBefore(a, b) ==
  /\ a.finished_at # NULL
  /\ b.finished_at = NULL \/ a.finished_at[1] > b.finished_at[1]

\* fetch_download: << >> for None, else <<row>>; of the matching rows the
\* first in that order, rows that tie staying in rowid order
fetch_download(table, video_id, url) ==
  LET m == {i \in 1..Len(table) : Matches(table[i], video_id, url)}
  IN IF video_id = EMPTY /\ url = EMPTY THEN << >>
     ELSE IF m = {} THEN << >>
     ELSE LET best == CHOOSE i \in m :
                        \A j \in m \ {i} :
                          \/ FinishedBefore(table[i], table[j])
                          \/ ~FinishedBefore(table[j], table[i]) /\ i < j
          IN << table[best] >>

\* a SET clause that counts every call, asked to or not
UpdatedRow_AlwaysCounts(row, status, retry_increment, last_action) ==
  [ row EXCEPT
      !.status = IF status # NULL THEN status ELSE @,
      !.last_action = IF last_action # NULL THEN last_action ELSE @,
      !.retry_count = << COALESCE(@, << 0 >>)[1] + 1 >> ]

\* a SET clause that stores the counter of the call instead of adding to
\* the stored one
UpdatedRow_SetsRetry(row, status, retry_increment, last_action) ==
  [ row EXCEPT
      !.status = IF status # NULL THEN status ELSE @,
      !.last_action = IF last_action # NULL THEN last_action ELSE @,
      !.retry_count = IF retry_increment THEN << 1 >> ELSE << 0 >> ]

\* the SET clause of update_download applied to one row
UpdatedRow(row, status, retry_increment, last_action) ==
  [ row EXCEPT
      !.status = IF status # NULL THEN status ELSE @,
      !.last_action = IF last_action # NULL THEN last_action ELSE @,
      !.retry_count = IF retry_increment
                        THEN << COALESCE(@, << 0 >>)[1] + 1 >> ELSE @ ]

\* an update that never touches retry_count
update_download_NoRetry(table, video_id, url, status, retry_increment, last_action) ==
  IF video_id = EMPTY /\ url = EMPTY THEN table
  ELSE [i \in 1..Len(table) |->
          IF Matches(table[i], video_id, url)
            THEN UpdatedRow(table[i], status, FALSE, last_action)
            ELSE table[i]]

\* update_download once the connection is open: the table afterwards
update_download(table, video_id, url, status, retry_increment, last_action) ==
  IF video_id = EMPTY /\ url = EMPTY THEN table
  ELSE IF status = NULL /\ last_action = NULL /\ ~retry_increment THEN table
  ELSE [i \in 1..Len(table) |->
          IF Matches(table[i], video_id, url)
            THEN UpdatedRow(table[i], status, retry_increment, last_action)
            ELSE table[i]]

\* the value list_downloads filters and orders by
SortKey(row) == COALESCE(row.finished_at, row.started_at)

\* ORDER BY COALESCE(finished_at, started_at) DESC: row a sorts before row
\* b; NULL is the smallest value
ListedBefore(a, b) ==
  /\ SortKey(a) # NULL
  /\ SortKey(b) = NULL \/ SortKey(a)[1] > SortKey(b)[1]

\* the rows at the positions left in that order, rows that tie staying in
\* rowid order
RECURSIVE Ordered(_, _)
Ordered(table, left) ==
  IF left = {} THEN << >>
  ELSE LET first == CHOOSE i \in left :
                      \A j \in left \ {i} :
                        \/ ListedBefore(table[i], table[j])
                        \/ ~ListedBefore(table[j], table[i]) /\ i < j
       IN << table[first] >> \o Ordered(table, left \ {first})

\* the WHERE clause of list_downloads: f.statuses is a set of statuses
\* (empty items are dropped), f.since and f.playlist_id are NULL when absent
Listed(row, f) ==
  /\ f.statuses \ {EMPTY} # {} => row.status \in f.statuses
  /\ f.since # NULL => SortKey(row) # NULL /\ SortKey(row)[1] >= f.since[1]
  /\ f.playlist_id # NULL => row.playlist_id = f.playlist_id

\* LIMIT :limit, set only when limit > 0
Limited(rows, limit) ==
  IF limit # NULL /\ limit[1] > 0 /\ limit[1] < Len(rows)
    THEN SubSeq(rows, 1, limit[1]) ELSE rows

\* a WHERE clause whose since bound is exclusive
Listed_After(row, f) ==
  /\ f.statuses \ {EMPTY} # {} => row.status \in f.statuses
  /\ f.since # NULL => SortKey(row) # NULL /\ SortKey(row)[1] > f.since[1]
  /\ f.playlist_id # NULL => row.playlist_id = f.playlist_id

\* a list_downloads with that WHERE clause
list_downloads_SinceExclusive(table, f) ==
  Limited(Ordered(table, {i \in DOMAIN table : Listed_After(table[i], f)}), f.limit)

\* a list_downloads that cuts to the limit in rowid order, then orders
list_downloads_LimitFirst(table, f) ==
  Ordered(Limited(SelectSeq(table, LAMBDA r : Listed(r, f)), f.limit),
          DOMAIN Limited(SelectSeq(table, LAMBDA r : Listed(r, f)), f.limit))

\* list_downloads once the connection is open
list_downloads(table, f) ==
  Limited(Ordered(table, {i \in DOMAIN table : Listed(table[i], f)}), f.limit)

(***************************************************************************)
(* Bulk importer (storage.py 160-328).  A line of the log is a record:     *)
(* kind says whether it is blank, fails to parse, parses to something that *)
(* is no object, or parses to an object; data holds the object's keys, a   *)
(* missing or falsy key being << >>.  A timestamp value is <<kind, n>>:    *)
(* "num" the JSON number n, "ymd" the 8-digit text of the calendar date    *)
(* that is day n of the epoch, "digits" an 8-digit text that names no      *)
(* calendar date and reads as the number n, "numtext" another text that    *)
(* reads as the number n, "iso" the ISO-8601 text of second n, "blank" a   *)
(* text of white space and "bad" a text that parses as none of these.      *)
(* The result is the stored ISO text << second >>, in the time zone of the *)
(* process.                                                                *)
(***************************************************************************)
\* _extract_timestamp: the ISO text of second precision, or None.  An
\* 8-digit text goes to strptime("%Y%m%d"), which gives midnight of the
\* date; when that fails it goes on to float() and fromtimestamp like any
\* numeric text
extract_timestamp(raw) ==
  IF raw = NULL THEN NULL
  ELSE IF raw[1] = "ymd" THEN << raw[2] * 86400 >>
  ELSE IF raw[1] \in {"num", "digits", "numtext", "iso"} THEN << raw[2] >>
  ELSE NULL


\* first truthy of filepath / filename / _filename
PathOf(d) == Or(d.filepath, Or(d.filename, d.u_filename))

\* the loop over requested_downloads
RECURSIVE RequestedPath(_)
RequestedPath(items) ==
  IF items = << >> THEN NULL
  ELSE IF PathOf(items[1]) # NULL THEN PathOf(items[1])
  ELSE RequestedPath(Tail(items))

\* the loop over ("epoch", "timestamp", "release_timestamp", "upload_date")
RECURSIVE FirstTimestamp(_)
FirstTimestamp(raws) ==
  IF raws = << >> THEN NULL
  ELSE Or(extract_timestamp(raws[1]), FirstTimestamp(Tail(raws)))

\* data.get("id") or data.get("video_id") or data.get("display_id") or
\* data.get("url")
RawVideoId(d) == Or(d.id, Or(d.video_id, Or(d.display_id, d.url)))

\* a row keyed by the raw identifier as the line gives it
ImportRow_RawKey(d) ==
  [ video_id |-> RawVideoId(d),
    url |-> Or(d.webpage_url, Or(d.original_url, Or(d.url, RawVideoId(d)))),
    title |-> d.title,
    status |-> Or(d.status, FINISHED),
    started_at |-> NULL,
    finished_at |->
      FirstTimestamp(<< d.epoch, d.timestamp, d.release_timestamp,
                        d.upload_date >>),
    file_path |->
      normalize_path(Or(PathOf(d), RequestedPath(d.requested_downloads))),
    error |-> NULL,
    playlist_id |-> Or(d.playlist_id, d.playlist),
    playlist_title |-> Or(d.playlist_title, d.playlist) ]

\* the row import_from_jsonl derives from one object (raw_video_id truthy)
ImportRow(d) ==
  [ video_id |->
      Or(NormalizedFirst(
           << RawVideoId(d),
              Or(d.webpage_url, Or(d.original_url, Or(d.url, RawVideoId(d)))) >>),
         RawVideoId(d)),
    url |-> Or(d.webpage_url, Or(d.original_url, Or(d.url, RawVideoId(d)))),
    title |-> d.title,
    status |-> Or(d.status, FINISHED),
    started_at |-> NULL,
    finished_at |->
      FirstTimestamp(<< d.epoch, d.timestamp, d.release_timestamp,
                        d.upload_date >>),
    file_path |->
      normalize_path(Or(PathOf(d), RequestedPath(d.requested_downloads))),
    error |-> NULL,
    playlist_id |-> Or(d.playlist_id, d.playlist),
    playlist_title |-> Or(d.playlist_title, d.playlist) ]

\* a loop over the lines that ends at the first line it cannot import
RECURSIVE ImportRows_StopAtSkipped(_)
ImportRows_StopAtSkipped(lines) ==
  IF lines = << >> THEN << >>
  ELSE IF lines[1].kind = "object" /\ RawVideoId(lines[1].data) # EMPTY
    THEN << ImportRow(lines[1].data) >> \o ImportRows_StopAtSkipped(Tail(lines))
  ELSE << >>

\* the rows list built from the lines
RECURSIVE ImportRows(_)
ImportRows(lines) ==
  IF lines = << >> THEN << >>
  ELSE (IF lines[1].kind = "object" /\ RawVideoId(lines[1].data) # EMPTY
          THEN << ImportRow(lines[1].data) >> ELSE << >>)
       \o ImportRows(Tail(lines))

\* executemany(INSERT ... ON CONFLICT(video_id) DO NOTHING)
RECURSIVE InsertOrIgnore(_, _)
InsertOrIgnore(table, rows) ==
  IF rows = << >> THEN table
  ELSE InsertOrIgnore(
         IF RowsWithKey(table, rows[1].video_id) # {} THEN table
         ELSE Append(table, InsertedRow(rows[1])),
         Tail(rows))

\* import_from_jsonl once the table exists: [table, added]
Imported(table, after) == [table |-> after, added |-> Len(after) - Len(table)]

\* an import that does not look for existing rows
import_from_jsonl_Unguarded(table, is_file, lines) ==
  IF ~is_file THEN [table |-> table, added |-> 0]
  ELSE Imported(table, InsertOrIgnore(table, ImportRows(lines)))

\* an import that does not look whether the path is a file
import_from_jsonl_AnyPath(table, is_file, lines) ==
  IF table # << >> THEN [table |-> table, added |-> 0]
  ELSE Imported(table, InsertOrIgnore(table, ImportRows(lines)))

import_from_jsonl(table, is_file, lines) ==
  IF ~is_file \/ table # << >> THEN [table |-> table, added |-> 0]
  ELSE Imported(table, InsertOrIgnore(table, ImportRows(lines)))

(***************************************************************************)
(* Decision driver (cli.py 141-154, 615-716).                              *)
(***************************************************************************)
\* cli._history_identifier
history_identifier(candidate) ==
  IF candidate = EMPTY THEN EMPTY ELSE normalize_history_id(candidate)

\* HistoryDecision and its defaults
HistoryDecision(proceed, overwrite, new_output, action, increment_retry) ==
  [ proceed |-> proceed, overwrite |-> overwrite, new_output |-> new_output,
    action |-> action, increment_retry |-> increment_retry ]

\* a default decision that overwrites
ProceedDefault_Overwrite == HistoryDecision(TRUE, TRUE, NULL, NULL, FALSE)

\* HistoryDecision(proceed=True)
ProceedDefault == HistoryDecision(TRUE, FALSE, NULL, NULL, FALSE)

\* the directory typed at the "download elsewhere" prompt
NEW_DIR == << "elsewhere" >>

\* a menu whose resume does not count a retry
DecisionFor_ResumeNoRetry(status, typed) ==
  LET choice == Strip(typed)
  IN IF status = SUCCESS
       THEN IF choice = << "2" >>
              THEN HistoryDecision(TRUE, TRUE, NULL, << "overwrite" >>, TRUE)
            ELSE IF choice = << "3" >>
              THEN HistoryDecision(TRUE, FALSE, NEW_DIR, << "download_elsewhere" >>, TRUE)
            ELSE HistoryDecision(FALSE, FALSE, NULL, << "skip" >>, FALSE)
     ELSE IF status \in {FAILED, IN_PROGRESS}
       THEN IF choice = << "2" >>
              THEN HistoryDecision(TRUE, TRUE, NULL, << "restart" >>, TRUE)
            ELSE IF choice = << "0" >>
              THEN HistoryDecision(FALSE, FALSE, NULL, << "skip" >>, FALSE)
            ELSE HistoryDecision(TRUE, FALSE, NULL, << "resume" >>, FALSE)
     ELSE IF choice = << "0" >>
       THEN HistoryDecision(FALSE, FALSE, NULL, << "skip" >>, FALSE)
       ELSE HistoryDecision(TRUE, FALSE, NULL, << "proceed" >>, FALSE)

\* a menu whose skip of a finished download counts a retry
DecisionFor_SkipCounts(status, typed) ==
  LET choice == Strip(typed)
  IN IF status = SUCCESS
       THEN IF choice = << "2" >>
              THEN HistoryDecision(TRUE, TRUE, NULL, << "overwrite" >>, TRUE)
            ELSE IF choice = << "3" >>
              THEN HistoryDecision(TRUE, FALSE, NEW_DIR, << "download_elsewhere" >>, TRUE)
            ELSE HistoryDecision(FALSE, FALSE, NULL, << "skip" >>, TRUE)
     ELSE IF status \in {FAILED, IN_PROGRESS}
       THEN IF choice = << "2" >>
              THEN HistoryDecision(TRUE, TRUE, NULL, << "restart" >>, TRUE)
            ELSE IF choice = << "0" >>
              THEN HistoryDecision(FALSE, FALSE, NULL, << "skip" >>, FALSE)
            ELSE HistoryDecision(TRUE, FALSE, NULL, << "resume" >>, TRUE)
     ELSE IF choice = << "0" >>
       THEN HistoryDecision(FALSE, FALSE, NULL, << "skip" >>, FALSE)
       ELSE HistoryDecision(TRUE, FALSE, NULL, << "proceed" >>, FALSE)

\* a menu whose yes/no question defaults to no
DecisionFor_DefaultNo(status, typed) ==
  LET choice == Strip(typed)
  IN IF status = SUCCESS
       THEN IF choice = << "2" >>
              THEN HistoryDecision(TRUE, TRUE, NULL, << "overwrite" >>, TRUE)
            ELSE IF choice = << "3" >>
              THEN HistoryDecision(TRUE, FALSE, NEW_DIR, << "download_elsewhere" >>, TRUE)
            ELSE HistoryDecision(FALSE, FALSE, NULL, << "skip" >>, FALSE)
     ELSE IF status \in {FAILED, IN_PROGRESS}
       THEN IF choice = << "2" >>
              THEN HistoryDecision(TRUE, TRUE, NULL, << "restart" >>, TRUE)
            ELSE IF choice = << "0" >>
              THEN HistoryDecision(FALSE, FALSE, NULL, << "skip" >>, FALSE)
            ELSE HistoryDecision(TRUE, FALSE, NULL, << "resume" >>, TRUE)
     ELSE IF choice # << "1" >>
       THEN HistoryDecision(FALSE, FALSE, NULL, << "skip" >>, FALSE)
       ELSE HistoryDecision(TRUE, FALSE, NULL, << "proceed" >>, FALSE)

\* the menu of prompt_history_decision: the decision for a stored status and
\* the typed choice (stripped by the code)
DecisionFor(status, typed) ==
  LET choice == Strip(typed)
  IN IF status = SUCCESS
       THEN IF choice = << "2" >>
              THEN HistoryDecision(TRUE, TRUE, NULL, << "overwrite" >>, TRUE)
            ELSE IF choice = << "3" >>
              THEN HistoryDecision(TRUE, FALSE, NEW_DIR, << "download_elsewhere" >>, TRUE)
            ELSE HistoryDecision(FALSE, FALSE, NULL, << "skip" >>, FALSE)
     ELSE IF status \in {FAILED, IN_PROGRESS}
       THEN IF choice = << "2" >>
              THEN HistoryDecision(TRUE, TRUE, NULL, << "restart" >>, TRUE)
            ELSE IF choice = << "0" >>
              THEN HistoryDecision(FALSE, FALSE, NULL, << "skip" >>, FALSE)
            ELSE HistoryDecision(TRUE, FALSE, NULL, << "resume" >>, TRUE)
     ELSE IF choice = << "0" >>
       THEN HistoryDecision(FALSE, FALSE, NULL, << "skip" >>, FALSE)
       ELSE HistoryDecision(TRUE, FALSE, NULL, << "proceed" >>, FALSE)

\* the status argument of the write-back
WriteBackStatus(decision) ==
  IF decision.proceed /\ decision.action # << "skip" >> THEN IN_PROGRESS ELSE NULL

\* the driver without its try/except around the store calls
prompt_history_decision_NoCatch(table, history_available, video_id, current_url, typed, fetch_raises, update_raises) ==
  LET entry == fetch_download(table, video_id, current_url)
      decision == DecisionFor(StatusLower(entry[1].status), typed)
  IN IF ~history_available \/ (~fetch_raises /\ entry = << >>)
       THEN [decision |-> ProceedDefault, entry |-> << >>, table |-> table,
             raised |-> FALSE, asked |-> FALSE]
     ELSE IF fetch_raises
       THEN [decision |-> ProceedDefault, entry |-> << >>, table |-> table,
             raised |-> TRUE, asked |-> FALSE]
     ELSE [decision |-> decision, entry |-> entry,
           table |-> IF update_raises THEN table
                     ELSE update_download(table, video_id, current_url,
                                          WriteBackStatus(decision),
                                          decision.increment_retry,
                                          decision.action),
           raised |-> update_raises, asked |-> TRUE]

\* prompt_history_decision.  fetch_raises / update_raises say whether the
\* store call raises; both calls sit in try/except, so nothing propagates.
\* Result: the decision, the fetched entry (<< >> or <<row>>), the table
\* afterwards, whether an exception left the function, and whether
\* typer.prompt was called.
prompt_history_decision(table, history_available, video_id, current_url, typed, fetch_raises, update_raises) ==
  LET entry == fetch_download(table, video_id, current_url)
      decision == DecisionFor(StatusLower(entry[1].status), typed)
  IN IF ~history_available \/ fetch_raises \/ entry = << >>
       THEN [decision |-> ProceedDefault, entry |-> << >>, table |-> table,
             raised |-> FALSE, asked |-> FALSE]
       ELSE [decision |-> decision, entry |-> entry,
             table |-> IF update_raises THEN table
                       ELSE update_download(table, video_id, current_url,
                                            WriteBackStatus(decision),
                                            decision.increment_retry,
                                            decision.action),
             raised |-> FALSE, asked |-> TRUE]

(***************************************************************************)
(* Downloader (downloader.py 26-144).  An info dict is a record; a key     *)
(* that is missing or falsy is << >>; entries is the sequence of entry     *)
(* dicts of a playlist.                                                    *)
(***************************************************************************)
\* _iter_entries
iter_entries(info) ==
  IF info = NULL THEN << >>
  ELSE IF info.entries # << >> THEN info.entries
  ELSE << info >>

\* the event _build_events makes of the idx-th entry
EntryEvent(entry, idx, url, playlist_id, playlist_title, status, started_at, finished_at, file_paths, error) ==
  [ video_id |-> Or(entry.id, Or(entry.url, url)),
    url |-> Or(entry.webpage_url, Or(entry.original_url, Or(entry.url, url))),
    title |-> entry.title,
    status |-> status,
    started_at |-> started_at,
    finished_at |-> finished_at,
    file_path |-> IF idx <= Len(file_paths) THEN file_paths[idx] ELSE NULL,
    error |-> error,
    playlist_id |-> Or(entry.playlist_id, playlist_id),
    playlist_title |-> Or(entry.playlist_title, playlist_title) ]

\* the entry that stands in when yt-dlp gave no info
FallbackEntry(url) ==
  [ id |-> url, title |-> NULL, webpage_url |-> url, original_url |-> EMPTY,
    url |-> EMPTY, playlist_id |-> NULL, playlist_title |-> NULL,
    entries |-> << >> ]

\* _build_events (opts.url is never empty, so no entry is skipped)
build_events(info, url, status, started_at, finished_at, file_paths, error) ==
  LET found == iter_entries(info)
      isPlaylist == info # NULL /\ info.entries # << >>
      playlist_id == IF isPlaylist THEN Or(info.id, info.playlist_id) ELSE NULL
      playlist_title ==
        IF isPlaylist THEN Or(info.title, info.playlist_title) ELSE NULL
      entries == IF found = << >> THEN << FallbackEntry(url) >> ELSE found
  IN [idx \in 1..Len(entries) |->
        EntryEvent(entries[idx], idx, url, playlist_id, playlist_title, status,
                   started_at, finished_at, file_paths, error)]

\* the for loop of _record_history: the events before position fail_at are
\* written, the one at fail_at raises (0: none raises) and ends the loop
RECURSIVE WriteEvents(_, _, _, _)
WriteEvents(table, events, n, fail_at) ==
  IF n > Len(events) \/ n = fail_at THEN table
  ELSE WriteEvents(record_event(table, events[n]), events, n + 1, fail_at)

\* _record_history without the try/except around record_event
record_history_NoCatch(table, dry_run, events, fail_at) ==
  IF dry_run THEN [table |-> table, written |-> << >>, raised |-> FALSE]
  ELSE [ table |-> WriteEvents(table, events, 1, fail_at),
         written |-> IF fail_at = 0 THEN events
                     ELSE SubSeq(events, 1, fail_at - 1),
         raised |-> fail_at # 0 ]

\* _record_history: [table, written, raised]
record_history(table, dry_run, events, fail_at) ==
  IF dry_run THEN [table |-> table, written |-> << >>, raised |-> FALSE]
  ELSE [ table |-> WriteEvents(table, events, 1, fail_at),
         written |-> IF fail_at = 0 THEN events
                     ELSE SubSeq(events, 1, fail_at - 1),
         raised |-> FALSE ]

(***************************************************************************)
(* State.                                                                  *)
(***************************************************************************)
VARIABLES
  n_pc,         \* normalizer harness: "start", "keyed", "rekeyed"
  n_raw,        \* the raw identifier handed to normalize_history_id
  n_id,         \* the video id n_raw encodes when it was built as a variant
  n_key,        \* normalize_history_id(n_raw)
  n_rekey,      \* normalize_history_id(n_key)
  db_path,      \* storage._DB_PATH: NULL until init_db
  table_exists, \* the downloads table exists in the database file
  downloads,    \* the rows of the downloads table, in rowid order
  clock,        \* the second datetime.utcnow() reads next
  log,          \* history: the operations that reached the table, in order
  prev,         \* history: the table before the last of them
  last,         \* history: the last operation called, with its result
  r_pc,         \* position of the download run (cli.main, Downloader.download)
  r_opts,       \* the run's options: url, retry, dry_run, save_metadata
  r_hist,       \* history_available, the result of _initialize_history
  r_imports,    \* history: the import_from_jsonl calls of _initialize_history
  r_decision,   \* the HistoryDecision of the preflight
  r_attempt,    \* attempt of Downloader.download
  r_delay,      \* delay of Downloader.download
  r_slept,      \* history: the waits between the attempts, in order
  r_info,       \* history_info of the current attempt
  r_files,      \* Downloader._finished_files
  r_error,      \* the exception being handled or raised: NULL, or its origin
  r_trace,      \* history: what each extract_info call did, in order
  r_faults,     \* history: the history operations that failed, in order
  c_pc,         \* position of cmd_download
  c_cfg,        \* the command line (urls, mode, dry_run, overwrite_all) and the table at the start
  c_urls,       \* urls, as the preflight loop has filtered them so far
  c_pre,        \* preflight_history_decisions
  c_i,          \* index of the URL being processed
  c_j,          \* index of the playlist entry being processed, 0 for none
  c_trace,      \* history: the driver calls and download calls of the run
  c_count,      \* the counters failed and total_files
  c_exit,       \* the exit code: NULL while the command runs
  p_pc,         \* position of the pause-mode loop over a playlist's entries
  p_i,          \* index of the entry being processed
  p_flag,       \* PauseController._pause_requested is set
  p_listener,   \* the listener thread: "off", "running", "returned"
  p_keys,       \* the keys pressed and not yet read by msvcrt.getch
  p_pressed,    \* the number of keys pressed so far
  p_trace       \* history: what the loop and the listener did, in order

norm_vars == << n_pc, n_raw, n_id, n_key, n_rekey >>
store_vars == << db_path, table_exists, downloads, clock, log, prev, last >>

run_vars ==
  << r_pc, r_opts, r_hist, r_imports, r_decision, r_attempt, r_delay, r_slept, r_info,
     r_files, r_error, r_trace, r_faults >>

cli_vars ==
  << c_pc, c_cfg, c_urls, c_pre, c_i, c_j, c_trace, c_count, c_exit >>

pause_vars ==
  << p_pc, p_i, p_flag, p_listener, p_keys, p_pressed, p_trace >>

vars == << norm_vars, store_vars, run_vars, cli_vars, pause_vars >>

(***************************************************************************)
(* Inputs of the normalizer.                                               *)
(***************************************************************************)
ID_A == <<"a","a","a","1","1","1","1","1","1","1","1">>
ID_B == <<"B","b","b","_","2","2","2","2","-","2","z">>
VideoIds == {ID_A, ID_B}

\* raw strings assembled from scheme, host, path and query pieces
RawSchemes == {EMPTY, <<"h","t","t","p","s",":","/","/">>, <<"H","T","T","P",":","/","/">>}
RawHosts == {<<"x",".","t","e","s","t">>, <<"y","o","u","t","u",".","b","e">>, <<"Y","o","u","T","u",".","b","e">>, <<"w","w","w",".","y","o","u","t","u","b","e",".","c","o","m">>}
RawPaths == {EMPTY, <<"/">>, <<"/","v">>, <<"/","/","a","b","c","d","e","f","g","h","i","j","k">>, <<"/","a","b","c","d","e","f","g","h","i","j","k">>, <<"/","w","a","t","c","h">>, <<"/","e","m","b","e","d","/","a","b","c","d","e","f","g","h","i","j","k">>}
RawQueries == {EMPTY, <<"?","b","=","2","&","a","=","1">>, <<"?","v","=","a","b","c","d","e","f","g","h","i","j","k">>, <<"?","a","=","%","2","6","b">>, <<"?","a">>}

RawOthers ==
  { ID_A, YT_PREFIX \o ID_A, <<"h","e","l","l","o">>, <<" "," ","p","a","d","d","e","d"," "," ">>, <<"-","1","2","3","4","5","_","6","7","8","9","0">>, <<"/","/","x",".","t","e","s","t","/","v">>, <<"x",".","t","e","s","t","/","a",";","b","?","q","=","a","+","b","#","f","r","a","g">>, <<"l","o","c","a","l","h","o","s","t",":","8","0","8","0","/","a",".","b">> }

GeneralInputs ==
  {s \o h \o p \o qy :
     s \in RawSchemes, h \in RawHosts, p \in RawPaths, qy \in RawQueries}
  \cup RawOthers

\* The URL shapes of one video id: watch parameter, short link and
\* embed/shorts/live path, with or without an unrelated query parameter or a
\* trailing slash.
VariantSchemes == {EMPTY, <<"h","t","t","p","s",":","/","/">>, <<"h","t","t","p",":","/","/">>}
PlatformHosts == {<<"w","w","w",".","y","o","u","t","u","b","e",".","c","o","m">>, <<"y","o","u","t","u","b","e",".","c","o","m">>, <<"m",".","y","o","u","t","u","b","e",".","c","o","m">>}
PathKinds == {<<"/","s","h","o","r","t","s","/">>, <<"/","e","m","b","e","d","/">>, <<"/","l","i","v","e","/">>}
ShortHost == <<"y","o","u","t","u",".","b","e">>

WatchForms(id) ==
  { <<"/","w","a","t","c","h","?","v","=">> \o id, <<"/","w","a","t","c","h","?","v","=">> \o id \o <<"&","t","=","1","0">>, <<"/","w","a","t","c","h","?","l","i","s","t","=","P","L","1","&","v","=">> \o id, <<"/","w","a","t","c","h","/","?","v","=">> \o id,
    <<"/","w","a","t","c","h","?","v","=">> \o id \o << "/" >> }

TailForms == {EMPTY, << "/" >>, <<"?","t","=","1","0">>, <<"/","?","s","i","=","a","b","c">>}

VariantBodies(id) ==
  {h \o w : h \in PlatformHosts, w \in WatchForms(id)}
  \cup {ShortHost \o << "/" >> \o id \o t : t \in TailForms}
  \cup {h \o k \o id \o t : h \in PlatformHosts, k \in PathKinds, t \in TailForms}

Variants(id) == {s \o b : s \in VariantSchemes, b \in VariantBodies(id)}

NormInputs ==
  {<< x, EMPTY >> : x \in GeneralInputs}
  \cup UNION {{<< x, id >> : x \in Variants(id)} : id \in VideoIds}

(***************************************************************************)
(* The normalizer harness: normalize an input, then normalize the key.     *)
(***************************************************************************)
\* the state of the store after import of the module, before init_db
StoreInit ==
  /\ db_path = NULL
  /\ table_exists = FALSE
  /\ downloads = << >>
  /\ clock = 1
  /\ log = << >>
  /\ prev = << >>
  /\ last = [op |-> "none", arg |-> << >>, result |-> << >>]

NormIdle ==
  /\ n_pc = "idle"
  /\ n_raw = EMPTY
  /\ n_id = EMPTY
  /\ n_key = EMPTY
  /\ n_rekey = EMPTY

\* no download run is under way
RunIdle ==
  /\ r_pc = "idle"
  /\ r_opts = << >>
  /\ r_hist = FALSE
  /\ r_imports = << >>
  /\ r_decision = << >>
  /\ r_attempt = 0
  /\ r_delay = 0
  /\ r_slept = << >>
  /\ r_info = NULL
  /\ r_files = << >>
  /\ r_error = NULL
  /\ r_trace = << >>
  /\ r_faults = << >>

\* no pause controller exists
PauseIdle ==
  /\ p_pc = "idle"
  /\ p_i = 0
  /\ p_flag = FALSE
  /\ p_listener = "off"
  /\ p_keys = << >>
  /\ p_pressed = 0
  /\ p_trace = << >>

\* no command is under way
CliIdle ==
  /\ c_pc = "idle"
  /\ c_cfg = << >>
  /\ c_urls = << >>
  /\ c_pre = << >>
  /\ c_i = 0
  /\ c_j = 0
  /\ c_trace = << >>
  /\ c_count = << >>
  /\ c_exit = NULL

NormInit ==
  /\ n_pc = "start"
  /\ \E inp \in NormInputs : n_raw = inp[1] /\ n_id = inp[2]
  /\ n_key = EMPTY
  /\ n_rekey = EMPTY
  /\ StoreInit
  /\ RunIdle
  /\ CliIdle
  /\ PauseIdle

Normalize ==
  /\ n_pc = "start"
  /\ n_key' = normalize_history_id(n_raw)
  /\ n_pc' = "keyed"
  /\ UNCHANGED << n_raw, n_id, n_rekey, store_vars, run_vars, cli_vars, pause_vars >>

Renormalize ==
  /\ n_pc = "keyed"
  /\ n_rekey' = normalize_history_id(n_key)
  /\ n_pc' = "rekeyed"
  /\ UNCHANGED << n_raw, n_id, n_key, store_vars, run_vars, cli_vars, pause_vars >>

NormNext == Normalize \/ Renormalize

SpecNorm == NormInit /\ [][NormNext]_vars

(***************************************************************************)
(* The event store under its callers: init_db, ensure_schema,              *)
(* record_event, the decision driver's fetch and write-back, and the bulk  *)
(* import.  The inputs are drawn from small sets.                          *)
(***************************************************************************)
\* operations that reach the table in one behaviour
MaxOps == 3

DB_FILE == << "history.db" >>
RuntimeError == << "RuntimeError" >>
OperationalError == << "OperationalError" >>

URL_SHORT_A == <<"h","t","t","p","s",":","/","/","y","o","u","t","u",".","b","e","/">> \o ID_A
WATCH_A == <<"h","t","t","p","s",":","/","/","w","w","w",".","y","o","u","t","u","b","e",".","c","o","m","/","w","a","t","c","h","?","v","=">> \o ID_A
X_BA == <<"h","t","t","p","s",":","/","/","x",".","t","e","s","t","/","v","?","b","=","2","&","a","=","1">>
X_AB == <<"h","t","t","p","s",":","/","/","x",".","t","e","s","t","/","v","?","a","=","1","&","b","=","2">>

\* (video_id, url) of the events: a bare id with its short link, a watch
\* URL, one URL in two query orders (once without video_id), and an id that
\* shares its url with another video
RawPairs ==
  { << ID_A, URL_SHORT_A >>, << WATCH_A, WATCH_A >>, << X_BA, X_BA >>,
    << EMPTY, X_AB >>, << ID_B, X_AB >> }

EventStatuses == {IN_PROGRESS, SUCCESS, FAILED}

\* the event of status s that is built at second n: the fields the
\* download workflow fills for that status, each tagged with n
EventOf(pair, s, n) ==
  [ video_id |-> pair[1],
    url |-> pair[2],
    title |-> IF s = IN_PROGRESS THEN << "title", n >> ELSE NULL,
    status |-> s,
    started_at |-> IF s = IN_PROGRESS THEN << n, 5 >> ELSE NULL,
    finished_at |-> IF s # IN_PROGRESS THEN << n, 5 >> ELSE NULL,
    file_path |-> IF s = SUCCESS THEN << "file", n >> ELSE NULL,
    error |-> IF s = FAILED THEN << "error", n >> ELSE NULL,
    playlist_id |-> IF s = IN_PROGRESS THEN << "PL", n >> ELSE NULL,
    playlist_title |-> IF s = IN_PROGRESS THEN << "list", n >> ELSE NULL ]

\* (video_id, current_url) as the callers of prompt_history_decision pass
\* them: the normalized URL with the raw URL (preflight), or the normalized
\* entry id with the entry's URL (playlist entries)
DriverQueries ==
  UNION {{<< history_identifier(p[i]), p[2] >> : i \in 1..2} : p \in RawPairs}

\* what the user types at the prompt
Choices == {<< "1" >>, << "2" >>, << "3" >>, << "0" >>, << "2", " " >>}

EmptyData ==
  [ id |-> EMPTY, video_id |-> EMPTY, display_id |-> EMPTY, url |-> EMPTY,
    webpage_url |-> EMPTY, original_url |-> EMPTY, title |-> NULL,
    status |-> NULL, playlist_id |-> NULL, playlist |-> NULL,
    playlist_title |-> NULL, filepath |-> NULL, filename |-> NULL,
    u_filename |-> NULL, requested_downloads |-> << >>, epoch |-> NULL,
    timestamp |-> NULL, release_timestamp |-> NULL, upload_date |-> NULL ]

ObjectLine(d) == [kind |-> "object", data |-> d]
OtherLine(k) == [kind |-> k, data |-> EmptyData]

EmptyItem == [filepath |-> NULL, filename |-> NULL, u_filename |-> NULL]

\* the metadata logs offered to the import
ImportLogs ==
  { << ObjectLine([EmptyData EXCEPT !.id = ID_A, !.title = << "title", 0 >>,
                     !.webpage_url = URL_SHORT_A,
                     !.u_filename = << "file", 0 >>,
                     !.upload_date = << "ymd", 0 >>]),
       ObjectLine([EmptyData EXCEPT !.id = ID_B, !.status = FAILED_CAPS,
                     !.timestamp = << "num", 0 >>,
                     !.requested_downloads =
                        << EmptyItem,
                           [EmptyItem EXCEPT !.filepath = << "file", 0 >>] >>]),
       OtherLine("nonobject") >>,
     << OtherLine("blank"),
        ObjectLine([EmptyData EXCEPT !.url = X_BA]),
        OtherLine("invalid"),
        ObjectLine([EmptyData EXCEPT !.title = << "title", 0 >>]),
        ObjectLine([EmptyData EXCEPT !.url = X_AB, !.status = FAILED]) >> }

Init ==
  /\ StoreInit
  /\ NormIdle
  /\ PauseIdle
  /\ RunIdle
  /\ CliIdle

Logged(op, arg, result) ==
  /\ log' = Append(log, [op |-> op, arg |-> arg, result |-> result])
  /\ last' = [op |-> op, arg |-> arg, result |-> result]
  /\ prev' = downloads
  /\ clock' = clock + 1

\* a call that leaves the table as it is
NotLogged(op, arg, result) ==
  /\ last' = [op |-> op, arg |-> arg, result |-> result]
  /\ UNCHANGED << downloads, log, prev, clock >>

\* init_db(path)
InitDb ==
  /\ db_path' = DB_FILE
  /\ NotLogged("init_db", DB_FILE, DB_FILE)
  /\ UNCHANGED << table_exists, norm_vars, pause_vars, run_vars, cli_vars >>

\* ensure_schema(): raises without a path, else creates the table when it is
\* absent and returns whether it did
EnsureSchema ==
  /\ IF db_path = NULL
       THEN /\ NotLogged("ensure_schema", << >>, RuntimeError)
            /\ UNCHANGED table_exists
       ELSE /\ last' = [op |-> "ensure_schema", arg |-> << >>,
                        result |-> << ~table_exists >>]
            /\ downloads' = AddColumns(downloads)
            /\ table_exists' = TRUE
            /\ UNCHANGED << log, prev, clock >>
  /\ UNCHANGED << db_path, norm_vars, pause_vars, run_vars, cli_vars >>

\* record_event(event)
RecordEvent ==
  /\ Len(log) < MaxOps
  /\ \E pair \in RawPairs, s \in EventStatuses :
       LET event == EventOf(pair, s, clock)
       IN IF db_path = NULL
            THEN /\ NotLogged("record_event", event, RuntimeError)
                 /\ UNCHANGED table_exists
            ELSE /\ downloads' = record_event(downloads, event)
                 /\ table_exists' = TRUE
                 /\ Logged("record_event", event, EventKey(event))
  /\ UNCHANGED << db_path, norm_vars, pause_vars, run_vars, cli_vars >>

\* prompt_history_decision(video_id, current_url) with the store working.
\* history_available is what _initialize_history returned: False without a
\* database path, and possibly False with one (ensure_schema had raised).
\* The call is logged when it found a record or changed the table.
Decide ==
  /\ Len(log) < MaxOps
  /\ \E qr \in DriverQueries, typed \in Choices, available \in {FALSE, db_path # NULL} :
       LET r == prompt_history_decision(downloads, available, qr[1], qr[2],
                                        typed, FALSE, FALSE)
           res == [entry |-> r.entry, decision |-> r.decision]
           arg == [video_id |-> qr[1], url |-> qr[2], available |-> available,
                   typed |-> IF r.asked THEN typed ELSE NULL]
       IN IF r.entry = << >> /\ r.table = downloads
            THEN /\ NotLogged("decide", arg, res)
                 /\ table_exists' = (table_exists \/ available)
            ELSE /\ downloads' = r.table
                 /\ table_exists' = TRUE
                 /\ Logged("decide", arg, res)
  /\ UNCHANGED << db_path, norm_vars, pause_vars, run_vars, cli_vars >>

\* import_from_jsonl(path): raises without a path or without the table
ImportFromJsonl ==
  /\ Len(log) < MaxOps
  /\ \E is_file \in BOOLEAN, lines \in ImportLogs :
       LET r == import_from_jsonl(downloads, is_file, lines)
       IN IF is_file /\ db_path = NULL
            THEN NotLogged("import", lines, RuntimeError)
          ELSE IF is_file /\ ~table_exists
            THEN NotLogged("import", lines, OperationalError)
          ELSE IF r.added = 0
            THEN NotLogged("import", lines, << 0 >>)
          ELSE /\ downloads' = r.table
               /\ Logged("import", lines, r)
  /\ UNCHANGED << db_path, table_exists, norm_vars, pause_vars, run_vars, cli_vars >>

\* the calls of update_download: one by key that only increments, one by
\* url that sets all three, one that only sets the status, one without
\* video_id and url, one that supplies nothing to set
UpdateCalls ==
  { [video_id |-> YtKey(ID_A), url |-> EMPTY, status |-> NULL,
     retry_increment |-> TRUE, last_action |-> NULL],
    [video_id |-> EMPTY, url |-> X_AB, status |-> IN_PROGRESS,
     retry_increment |-> TRUE, last_action |-> << "resume" >>],
    [video_id |-> YtKey(ID_A), url |-> X_AB, status |-> FAILED,
     retry_increment |-> FALSE, last_action |-> NULL],
    [video_id |-> EMPTY, url |-> EMPTY, status |-> FAILED,
     retry_increment |-> TRUE, last_action |-> << "skip" >>],
    [video_id |-> YtKey(ID_A), url |-> X_AB, status |-> NULL,
     retry_increment |-> FALSE, last_action |-> NULL] }

\* the table after the call c of update_download
Updated(table, c) ==
  update_download(table, c.video_id, c.url, c.status, c.retry_increment, c.last_action)

\* update_download(video_id, url, status=, retry_increment=, last_action=):
\* returns at once without video_id and url, else runs ensure_schema, which
\* raises without a path
Update ==
  /\ Len(log) < MaxOps
  /\ \E c \in UpdateCalls :
       IF c.video_id = EMPTY /\ c.url = EMPTY
         THEN NotLogged("update", c, NULL) /\ UNCHANGED table_exists
       ELSE IF db_path = NULL
         THEN NotLogged("update", c, RuntimeError) /\ UNCHANGED table_exists
       ELSE IF Updated(AddColumns(downloads), c) = downloads
         THEN NotLogged("update", c, NULL) /\ table_exists' = TRUE
       ELSE /\ downloads' = Updated(AddColumns(downloads), c)
            /\ table_exists' = TRUE
            /\ Logged("update", c, NULL)
  /\ UNCHANGED << db_path, norm_vars, pause_vars, run_vars, cli_vars >>

Next ==
  \/ InitDb
  \/ EnsureSchema
  \/ RecordEvent
  \/ Decide
  \/ ImportFromJsonl
  \/ Update

Spec == Init /\ [][Next]_vars

(***************************************************************************)
(* The store as the history commands and the import use it: the reads      *)
(* fetch_download and list_downloads called directly, and the import of    *)
(* metadata logs with every kind of line and of timestamp value.  Reads    *)
(* are not logged; a result is [raised, rows] or [raised, added].          *)
(***************************************************************************)
\* the events of the history: three videos A, B, C, where B and C have
\* records that share a url, and unfinished downloads of B and C
QueryEvents(n) ==
  { EventOf(<< ID_A, URL_SHORT_A >>, SUCCESS, n),
    EventOf(<< ID_B, X_AB >>, FAILED, n),
    EventOf(<< X_BA, X_BA >>, SUCCESS, n),
    EventOf(<< EMPTY, X_AB >>, IN_PROGRESS, n),
    EventOf(<< ID_B, X_AB >>, IN_PROGRESS, n) }

\* (video_id, url) of the direct calls of fetch_download
FetchCalls ==
  { [video_id |-> EMPTY, url |-> EMPTY],
    [video_id |-> YtKey(ID_A), url |-> EMPTY],
    [video_id |-> EMPTY, url |-> X_AB],
    [video_id |-> YtKey(ID_A), url |-> X_AB],
    [video_id |-> YtKey(ID_B), url |-> URL_SHORT_A] }

NoFilter ==
  [statuses |-> {}, limit |-> NULL, since |-> NULL, playlist_id |-> NULL]

\* the filters of the calls of list_downloads
ListCalls ==
  { NoFilter,
    [NoFilter EXCEPT !.statuses = {SUCCESS}, !.limit = << 1 >>],
    [NoFilter EXCEPT !.statuses = {FAILED, IN_PROGRESS, EMPTY}],
    [NoFilter EXCEPT !.statuses = {EMPTY}],
    [NoFilter EXCEPT !.limit = << 2 >>],
    [NoFilter EXCEPT !.limit = << 0 >>],
    [NoFilter EXCEPT !.limit = << -1 >>, !.since = << 2 >>],
    [NoFilter EXCEPT !.playlist_id = << "PL", 1 >>],
    [NoFilter EXCEPT !.statuses = {SUCCESS, FAILED}, !.since = << 1 >>,
                     !.limit = << 1 >>] }

\* the table of a history file that a version without retry_count and
\* last_action has written
OldRows ==
  << [InsertedRow(Payload(EventOf(<< ID_A, URL_SHORT_A >>, SUCCESS, 0)))
        EXCEPT !.retry_count = NULL],
     [InsertedRow(Payload(EventOf(<< ID_B, X_AB >>, IN_PROGRESS, 0)))
        EXCEPT !.retry_count = NULL] >>

\* init_db(path) with the path of such a file
OpenOld ==
  /\ db_path = NULL /\ ~table_exists /\ downloads = << >>
  /\ db_path' = DB_FILE
  /\ table_exists' = TRUE
  /\ downloads' = OldRows
  /\ last' = [op |-> "init_db", arg |-> DB_FILE, result |-> DB_FILE]
  /\ UNCHANGED << log, prev, clock, norm_vars, pause_vars, run_vars, cli_vars >>

\* record_event(event)
RecordOne ==
  /\ Len(log) < MaxOps
  /\ \E event \in QueryEvents(clock) :
       IF db_path = NULL
         THEN /\ NotLogged("record_event", event, RuntimeError)
              /\ UNCHANGED table_exists
         ELSE /\ downloads' = record_event(AddColumns(downloads), event)
              /\ table_exists' = TRUE
              /\ Logged("record_event", event, EventKey(event))
  /\ UNCHANGED << db_path, norm_vars, pause_vars, run_vars, cli_vars >>

\* a fetch_download that answers None when there is no database path
FetchDownload_Quiet ==
  /\ \E c \in FetchCalls :
       IF (c.video_id = EMPTY /\ c.url = EMPTY) \/ db_path = NULL
         THEN /\ NotLogged("fetch", c, [raised |-> NULL, rows |-> << >>])
              /\ UNCHANGED table_exists
       ELSE /\ last' = [op |-> "fetch", arg |-> c,
                        result |-> [raised |-> NULL,
                                    rows |-> fetch_download(AddColumns(downloads),
                                                            c.video_id, c.url)]]
            /\ downloads' = AddColumns(downloads)
            /\ table_exists' = TRUE
            /\ UNCHANGED << log, prev, clock >>
  /\ UNCHANGED << db_path, norm_vars, pause_vars, run_vars, cli_vars >>

\* fetch_download(video_id, url): returns None at once without video_id
\* and url, else runs ensure_schema, which raises without a path
FetchDownload ==
  /\ \E c \in FetchCalls :
       IF c.video_id = EMPTY /\ c.url = EMPTY
         THEN /\ NotLogged("fetch", c, [raised |-> NULL, rows |-> << >>])
              /\ UNCHANGED table_exists
       ELSE IF db_path = NULL
         THEN /\ NotLogged("fetch", c, [raised |-> RuntimeError, rows |-> << >>])
              /\ UNCHANGED table_exists
       ELSE /\ last' = [op |-> "fetch", arg |-> c,
                        result |-> [raised |-> NULL,
                                    rows |-> fetch_download(AddColumns(downloads),
                                                            c.video_id, c.url)]]
            /\ downloads' = AddColumns(downloads)
            /\ table_exists' = TRUE
            /\ UNCHANGED << log, prev, clock >>
  /\ UNCHANGED << db_path, norm_vars, pause_vars, run_vars, cli_vars >>

\* list_downloads(statuses=, limit=, since=, playlist_id=): runs
\* ensure_schema first
ListDownloads ==
  /\ \E f \in ListCalls :
       IF db_path = NULL
         THEN /\ NotLogged("list", f, [raised |-> RuntimeError, rows |-> << >>])
              /\ UNCHANGED table_exists
         ELSE /\ last' = [op |-> "list", arg |-> f,
                          result |-> [raised |-> NULL,
                                      rows |-> list_downloads(AddColumns(downloads), f)]]
              /\ downloads' = AddColumns(downloads)
              /\ table_exists' = TRUE
              /\ UNCHANGED << log, prev, clock >>
  /\ UNCHANGED << db_path, norm_vars, pause_vars, run_vars, cli_vars >>

\* the metadata logs of the import: one with a line for each way of
\* dating a video (upload_date only; a text that does not parse before two
\* numbers and a date; nothing that parses), one with every kind of line
\* that is skipped and two lines for one video, one with an 8-digit text
\* that is no date, one without a line to import
QueryLogs ==
  { << ObjectLine([EmptyData EXCEPT !.id = ID_A, !.title = << "title", 0 >>,
                     !.webpage_url = URL_SHORT_A,
                     !.u_filename = << "file", 0 >>,
                     !.upload_date = << "ymd", 1 >>]),
       ObjectLine([EmptyData EXCEPT !.id = ID_B,
                     !.epoch = << "bad", 0 >>,
                     !.timestamp = << "num", 2 >>,
                     !.release_timestamp = << "numtext", 3 >>,
                     !.upload_date = << "ymd", 1 >>]),
       ObjectLine([EmptyData EXCEPT !.url = X_BA,
                     !.epoch = << "bad", 0 >>,
                     !.upload_date = << "blank", 0 >>]) >>,
     << OtherLine("blank"),
        ObjectLine([EmptyData EXCEPT !.display_id = ID_A,
                      !.title = << "title", 0 >>]),
        OtherLine("invalid"),
        ObjectLine([EmptyData EXCEPT !.title = << "title", 1 >>]),
        OtherLine("nonobject"),
        ObjectLine([EmptyData EXCEPT !.url = WATCH_A,
                      !.title = << "title", 2 >>,
                      !.release_timestamp = << "iso", 4 >>]) >>,
     << ObjectLine([EmptyData EXCEPT !.id = ID_A,
                      !.upload_date = << "digits", 7 >>]) >>,
     << OtherLine("invalid"), OtherLine("blank") >> }

\* import_from_jsonl(path): returns 0 at once when the path is no file,
\* else opens the connection, which raises without a database path, and
\* reads the table, which raises when the table was never created
ImportLog ==
  /\ Len(log) < MaxOps
  /\ \E is_file \in BOOLEAN, lines \in QueryLogs :
       LET c == [is_file |-> is_file, lines |-> lines]
       IN IF is_file /\ db_path = NULL
            THEN NotLogged("import", c, [raised |-> RuntimeError, added |-> 0])
          ELSE IF is_file /\ ~table_exists
            THEN NotLogged("import", c, [raised |-> OperationalError, added |-> 0])
          ELSE /\ downloads' = import_from_jsonl(downloads, is_file, lines).table
               /\ IF import_from_jsonl(downloads, is_file, lines).table = downloads
                    THEN /\ last' = [op |-> "import", arg |-> c,
                                     result |-> [raised |-> NULL, added |-> 0]]
                         /\ UNCHANGED << log, prev, clock >>
                    ELSE Logged("import", c,
                                [raised |-> NULL,
                                 added |-> import_from_jsonl(downloads, is_file, lines).added])
  /\ UNCHANGED << db_path, table_exists, norm_vars, pause_vars, run_vars, cli_vars >>

QueryNext ==
  \/ InitDb
  \/ EnsureSchema
  \/ RecordOne
  \/ FetchDownload
  \/ ListDownloads
  \/ ImportLog
  \/ Update
  \/ OpenOld

SpecQuery == Init /\ [][QueryNext]_vars

(***************************************************************************)
(* A download run: cli.main initializes the history, asks the decision     *)
(* driver about the URL, and calls Downloader.download, whose retry loop   *)
(* writes the history.  yt-dlp is the environment: each extract_info call  *)
(* returns the info of the URL or raises.  A history operation may fail    *)
(* wherever the code lets it (the file or its directory is unusable).      *)
(***************************************************************************)
\* the largest opts.retry the runs are given
MaxRetry == 2

URL_YT == URL_SHORT_A
URL_VK == <<"h","t","t","p","s",":","/","/","v","k",".","c","o","m","/","v","i","d","e","o","-","1","2","3","4","5","_","6","7","8","9","0">>
URL_PL == <<"h","t","t","p","s",":","/","/","w","w","w",".","y","o","u","t","u","b","e",".","c","o","m","/","p","l","a","y","l","i","s","t","?","l","i","s","t","=","P","L","a","a","a","a">>
VK_ID == <<"-","1","2","3","4","5","_","6","7","8","9","0">>
PL_ID == <<"P","L","a","a","a","a">>

\* the watch URL of the second video, and a watch URL inside a playlist
WATCH_B == <<"h","t","t","p","s",":","/","/","w","w","w",".","y","o","u","t","u","b","e",".","c","o","m","/","w","a","t","c","h","?","v","=">> \o ID_B
URL_WL == WATCH_A \o <<"&","l","i","s","t","=","P","L","a","a","a","a">>

RunUrls == {URL_YT, URL_VK, URL_PL}

\* an info dict of yt-dlp for one video
VideoInfo(id, webpage_url, n) ==
  [ id |-> id, title |-> << "title", n >>, webpage_url |-> webpage_url,
    original_url |-> EMPTY, url |-> EMPTY, playlist_id |-> NULL,
    playlist_title |-> NULL, entries |-> << >> ]

\* what extract_info returns for the URLs of the model: a video with an
\* 11-character id (under its short link and under its watch URL), a video
\* with another kind of id, a playlist of two whose second entry carries no
\* URL, and a watch URL that names a playlist of two
Catalog(url) ==
  IF url \in {URL_YT, WATCH_A} THEN VideoInfo(ID_A, WATCH_A, 1)
  ELSE IF url = WATCH_B THEN VideoInfo(ID_B, WATCH_B, 4)
  ELSE IF url = URL_VK THEN VideoInfo(VK_ID, URL_VK, 2)
  ELSE IF url = URL_WL
    THEN [ VideoInfo(PL_ID, URL_WL, 3) EXCEPT
             !.entries = << VideoInfo(ID_A, WATCH_A, 1),
                            VideoInfo(ID_B, WATCH_B, 4) >> ]
  ELSE [ VideoInfo(PL_ID, URL_PL, 3) EXCEPT
           !.entries = << VideoInfo(ID_A, WATCH_A, 1),
                          VideoInfo(ID_B, EMPTY, 4) >> ]

\* the history file as earlier runs left it: absent, or holding the record
\* of a finished or of a failed download
PriorEvents ==
  { << >>,
    << EventOf(<< ID_A, WATCH_A >>, IN_PROGRESS, 0),
       EventOf(<< ID_A, WATCH_A >>, SUCCESS, 0) >>,
    << EventOf(<< VK_ID, URL_VK >>, IN_PROGRESS, 0),
       EventOf(<< VK_ID, URL_VK >>, FAILED, 0) >> }

\* cfg.save_metadata: no metadata log, or the log of an earlier download
MetadataLogs ==
  { << >>,
    << ObjectLine([EmptyData EXCEPT !.id = ID_B, !.title = << "title", 4 >>,
                     !.webpage_url = URL_SHORT_A,
                     !.epoch = << "num", 0 >>]) >> }

\* opts.retry_delay of the runs, in seconds
RetryDelays == {-1, 0, 3}

\* float(opts.retry_delay), taken as it is
Delay_Unclamped(retry_delay) == retry_delay

\* max(0.0, float(opts.retry_delay))
Delay(retry_delay) == IF retry_delay > 0 THEN retry_delay ELSE 0

\* max(1, int(opts.retry))
Attempts(retry) == IF retry > 1 THEN retry ELSE 1

\* the files the progress hook reports for the first n entries of info
FilesOf(info, n) == [i \in 1..n |-> << "file", i >>]

DownloadInit ==
  /\ db_path = NULL
  /\ \E evs \in PriorEvents :
       /\ downloads = WriteEvents(<< >>, evs, 1, 0)
       /\ table_exists = (evs # << >>)
  /\ clock = 1
  /\ log = << >>
  /\ prev = << >>
  /\ last = [op |-> "none", arg |-> << >>, result |-> << >>]
  /\ NormIdle
  /\ PauseIdle
  /\ r_pc = "start"
  /\ r_opts = << >>
  /\ r_hist = FALSE
  /\ r_imports = << >>
  /\ r_decision = << >>
  /\ r_attempt = 0
  /\ r_delay = 0
  /\ r_slept = << >>
  /\ r_info = NULL
  /\ r_files = << >>
  /\ r_error = NULL
  /\ r_trace = << >>
  /\ r_faults = << >>
  /\ CliIdle

\* the command line is read: one URL and the options of the run, with the
\* retry_delay that DownloadOptions has by default
StartRun ==
  /\ r_pc = "start"
  /\ \E url \in RunUrls, retry \in 0..MaxRetry, dry_run \in BOOLEAN,
        meta \in MetadataLogs :
       r_opts' = [url |-> url, retry |-> retry, retry_delay |-> 5,
                  dry_run |-> dry_run, save_metadata |-> meta]
  /\ r_pc' = "history"
  /\ UNCHANGED << norm_vars, pause_vars, cli_vars, store_vars, r_hist, r_imports, r_decision, r_attempt,
                  r_delay, r_slept, r_info,
                  r_files, r_error, r_trace, r_faults >>

\* ensure_schema's result: the table was not there before the call
Created(existed) == ~existed

\* an import that does not ask whether the table was created
ShouldImport_Always(created, save_metadata) == save_metadata # << >>

\* if created and cfg.save_metadata
ShouldImport(created, save_metadata) == created /\ save_metadata # << >>

\* how _initialize_history can go
HistoryModes == {"disabled", "init_db fails", "ensure_schema fails", "ok",
                 "import fails"}

\* _initialize_history: False when history is disabled or init_db or
\* ensure_schema raises; the import runs when the table was just created
\* and a metadata log is configured, and its failure is swallowed
InitializeHistory ==
  /\ r_pc = "history"
  /\ \E mode \in HistoryModes :
       /\ mode = "import fails" =>
            ShouldImport(Created(table_exists), r_opts.save_metadata)
       /\ r_hist' = (mode \in {"ok", "import fails"})
       /\ db_path' = IF mode \in {"disabled", "init_db fails"} THEN db_path
                     ELSE DB_FILE
       /\ table_exists' = (table_exists \/ r_hist')
       /\ downloads' =
            IF mode = "ok"
                 /\ ShouldImport(Created(table_exists), r_opts.save_metadata)
              THEN import_from_jsonl(downloads, TRUE, r_opts.save_metadata).table
              ELSE downloads
       /\ r_imports' =
            IF mode \in {"ok", "import fails"}
                 /\ ShouldImport(Created(table_exists), r_opts.save_metadata)
              THEN Append(r_imports, [created |-> Created(table_exists),
                                      raised |-> mode = "import fails"])
              ELSE r_imports
       /\ r_faults' = IF mode \in {"disabled", "ok"} THEN r_faults
                      ELSE Append(r_faults, mode)
  /\ r_pc' = "preflight"
  /\ UNCHANGED << norm_vars, pause_vars, cli_vars, clock, log, prev, last, r_opts, r_decision,
                  r_attempt, r_delay, r_slept, r_info, r_files, r_error, r_trace >>

\* what the call r of prompt_history_decision leaves
Decided(r, fault) ==
  /\ downloads' = r.table
  /\ r_decision' = r.decision
  /\ r_faults' = r_faults \o fault
  /\ r_pc' = IF r.raised THEN "aborted"
             ELSE IF r.decision.proceed THEN "attempt" ELSE "skipped"
  /\ r_error' = IF r.raised THEN << "history" >> ELSE r_error

\* the preflight loop of main over its one URL
Preflight ==
  /\ r_pc = "preflight"
  /\ \E typed \in Choices, fetch_raises \in BOOLEAN, update_raises \in BOOLEAN :
       /\ ~r_hist => ~fetch_raises /\ ~update_raises
       /\ fetch_raises => ~update_raises
       /\ Decided(prompt_history_decision(downloads, r_hist,
                                          history_identifier(r_opts.url),
                                          r_opts.url, typed, fetch_raises,
                                          update_raises),
                  IF fetch_raises THEN << "fetch" >>
                  ELSE IF update_raises THEN << "update" >> ELSE << >>)
  /\ UNCHANGED << norm_vars, pause_vars, cli_vars, db_path, table_exists, clock, log, prev, last,
                  r_opts, r_hist, r_imports, r_attempt, r_delay, r_slept, r_info, r_files,
                  r_trace >>

\* where record_event can raise among n events: nowhere (0) or at one of
\* them; at the first for certain when no database path is set
FailPoints(n) == IF db_path = NULL THEN {1} ELSE 0..n

\* what the call w of _record_history leaves; control goes to on_ok, or to
\* on_raise when an exception left _record_history
Written(w, fail_at, on_ok, on_raise) ==
  /\ downloads' = w.table
  /\ table_exists' = (table_exists \/ Len(w.written) > 0)
  /\ log' = log \o [i \in 1..Len(w.written) |->
                      [op |-> "record_event", arg |-> w.written[i],
                       result |-> EventKey(w.written[i])]]
  /\ clock' = clock + 1
  /\ r_faults' = IF fail_at # 0 THEN Append(r_faults, "record_event")
                 ELSE r_faults
  /\ r_pc' = IF w.raised THEN on_raise ELSE on_ok
  /\ r_error' = IF w.raised THEN << "history" >> ELSE r_error

\* the start of an attempt, the first one after attempt = 0 and
\* delay = max(0.0, float(opts.retry_delay)): extract_info(download=False)
\* and the in_progress write (both skipped in a dry run)
Preview ==
  /\ r_pc = "attempt"
  /\ r_attempt' = r_attempt + 1
  /\ r_delay' = IF r_attempt = 0 THEN Delay(r_opts.retry_delay) ELSE r_delay
  /\ IF r_opts.dry_run
       THEN /\ r_pc' = "fetch"
            /\ r_info' = NULL
            /\ UNCHANGED << downloads, table_exists, log, clock, r_faults,
                            r_error, r_trace >>
       ELSE \E raises \in BOOLEAN :
              IF raises
                THEN /\ r_pc' = "except"
                     /\ r_info' = NULL
                     /\ r_error' = << "download" >>
                     /\ r_trace' = Append(r_trace, "preview raises")
                     /\ UNCHANGED << downloads, table_exists, log, clock,
                                     r_faults >>
                ELSE /\ r_info' = Catalog(r_opts.url)
                     /\ r_trace' = Append(r_trace, "preview ok")
                     /\ \E fail_at \in FailPoints(Len(iter_entries(r_info'))) :
                          Written(
                            record_history(
                              downloads, FALSE,
                              build_events(r_info', r_opts.url, IN_PROGRESS,
                                           << clock, 5 >>, NULL, << >>, NULL),
                              fail_at),
                            fail_at, "fetch", "except")
  /\ UNCHANGED << norm_vars, pause_vars, cli_vars, db_path, prev, last, r_opts, r_hist, r_imports, r_decision,
                  r_files, r_slept >>

\* extract_info(download=not dry_run), and on its return the success write
\* and the return of download()
Fetch ==
  /\ r_pc = "fetch"
  /\ \E raises \in BOOLEAN :
       IF raises
         THEN /\ r_pc' = "except"
              /\ r_error' = << "download" >>
              /\ r_trace' = Append(r_trace, "download raises")
              /\ \E partial \in 0..(Len(iter_entries(Catalog(r_opts.url))) - 1) :
                   r_files' = r_files \o
                     FilesOf(Catalog(r_opts.url),
                             IF r_opts.dry_run THEN 0 ELSE partial)
              /\ UNCHANGED << downloads, table_exists, log, clock, r_faults,
                              r_info >>
         ELSE /\ r_trace' = Append(r_trace, "download ok")
              /\ IF r_opts.dry_run
                   THEN /\ r_pc' = "returned"
                        /\ UNCHANGED << downloads, table_exists, log, clock,
                                        r_faults, r_info, r_files, r_error >>
                   ELSE /\ r_info' = Catalog(r_opts.url)
                        /\ r_files' = r_files \o
                             FilesOf(r_info', Len(iter_entries(r_info')))
                        /\ \E fail_at \in FailPoints(Len(iter_entries(r_info'))) :
                             Written(
                               record_history(
                                 downloads, FALSE,
                                 build_events(r_info', r_opts.url, SUCCESS,
                                              NULL, << clock, 5 >>, r_files',
                                              NULL),
                                 fail_at),
                               fail_at, "returned", "except")
  /\ UNCHANGED << norm_vars, pause_vars, cli_vars, db_path, prev, last, r_opts, r_hist, r_imports, r_decision,
                  r_attempt, r_delay, r_slept >>

\* the except branch of the retry loop: the failed write, then the raise
\* after the last attempt, or time.sleep(delay) when delay > 0, the
\* doubling of delay and the next attempt
HandleError ==
  /\ r_pc = "except"
  /\ \E fail_at \in (IF r_opts.dry_run THEN {0}
                     ELSE FailPoints(Len(build_events(r_info, r_opts.url,
                                                      FAILED, NULL, NULL,
                                                      << >>, NULL)))) :
       Written(
         record_history(
           downloads, r_opts.dry_run,
           build_events(r_info, r_opts.url, FAILED, NULL, << clock, 5 >>,
                        << >>, << "error", clock >>),
           fail_at),
         fail_at,
         IF r_attempt >= Attempts(r_opts.retry) THEN "raised" ELSE "attempt",
         "raised")
  /\ IF r_attempt >= Attempts(r_opts.retry)
       THEN UNCHANGED << r_delay, r_slept >>
       ELSE /\ r_slept' = Append(r_slept, r_delay)
            /\ r_delay' = r_delay * 2
  /\ UNCHANGED << norm_vars, pause_vars, cli_vars, db_path, prev, last, r_opts, r_hist, r_imports, r_decision,
                  r_attempt, r_info, r_files, r_trace >>

DownloadNext ==
  \/ StartRun
  \/ InitializeHistory
  \/ Preflight
  \/ Preview
  \/ Fetch
  \/ HandleError

SpecDownload == DownloadInit /\ [][DownloadNext]_vars

(***************************************************************************)
(* Downloader.download called on its own, as a test or another program     *)
(* calls it: no history is initialized, so every record_event raises and   *)
(* _record_history swallows it.  The options range over the numbers of     *)
(* attempts and the delays.                                                *)
(***************************************************************************)
\* the largest opts.retry of these calls
MaxTries == 3

\* dl.download(opts)
StartDownload ==
  /\ r_pc = "start"
  /\ \E url \in RunUrls, retry \in 0..MaxTries, retry_delay \in RetryDelays,
        dry_run \in BOOLEAN :
       r_opts' = [url |-> url, retry |-> retry, retry_delay |-> retry_delay,
                  dry_run |-> dry_run, save_metadata |-> << >>]
  /\ r_pc' = "attempt"
  /\ UNCHANGED << norm_vars, pause_vars, cli_vars, store_vars, r_hist, r_imports, r_decision, r_attempt,
                  r_delay, r_slept, r_info, r_files, r_error, r_trace, r_faults >>

RetryNext ==
  \/ StartDownload
  \/ Preview
  \/ Fetch
  \/ HandleError

SpecRetry == DownloadInit /\ [][RetryNext]_vars

(***************************************************************************)
(* Runs of the command one after another against the same store: each run  *)
(* is a new process that reads its options and calls _initialize_history;  *)
(* the database file stays.                                                 *)
(***************************************************************************)
\* the process ends and the command is started again
NextRun ==
  /\ r_pc = "preflight"
  /\ r_pc' = "start"
  /\ db_path' = NULL
  /\ r_hist' = FALSE
  /\ r_opts' = << >>
  /\ r_faults' = << >>
  /\ UNCHANGED << norm_vars, pause_vars, cli_vars, downloads, table_exists, clock, log, prev,
                  last, r_imports, r_decision, r_attempt, r_delay, r_slept,
                  r_info, r_files, r_error, r_trace >>

RunsNext ==
  \/ StartRun
  \/ InitializeHistory
  \/ NextRun

SpecRuns == DownloadInit /\ [][RunsNext]_vars

(***************************************************************************)
(* cmd_download (cli.py 433-1472) without the quality dialogue: the        *)
(* preflight loop over the URLs, then for each URL that is left either one *)
(* download of the URL or, when a playlist is expanded (pause mode, or the *)
(* interactive playlist mode), a decision and a download per entry.  The   *)
(* download itself is Downloader.download above, with cfg.retry = 1.       *)
(***************************************************************************)
\* cfg.output
CFG_OUTPUT == << "downloads" >>

\* ia.get_entry_url
get_entry_url(entry) ==
  Or(entry.original_url, Or(entry.webpage_url, entry.url))

\* the command lines of the model; the interactive playlist mode takes one
\* URL and asks whether to overwrite every file (ia.ask_overwrite_all)
CliConfigs ==
  { [urls |-> u, mode |-> m, dry_run |-> d, overwrite_all |-> FALSE] :
      u \in {<< URL_VK >>, << URL_PL >>, << URL_WL >>, << URL_YT, URL_VK >>},
      m \in {"plain", "pause"}, d \in BOOLEAN }
  \cup { [urls |-> << URL_WL >>, mode |-> "interactive", dry_run |-> FALSE,
          overwrite_all |-> o] : o \in BOOLEAN }

\* the history earlier runs left: nothing, a finished video, a failed one,
\* both, a playlist downloaded as a whole
CliPriorEvents ==
  PriorEvents
  \cup { << EventOf(<< ID_A, WATCH_A >>, SUCCESS, 0),
            EventOf(<< VK_ID, URL_VK >>, FAILED, 0) >>,
         build_events(Catalog(URL_PL), URL_PL, SUCCESS, NULL, << 0, 5 >>,
                      FilesOf(Catalog(URL_PL), 2), NULL) }

\* an entry of c_trace: a call of prompt_history_decision ...
Asked(i, j, video_id, url, r) ==
  [ kind |-> "ask", i |-> i, j |-> j, video_id |-> video_id, url |-> url,
    found |-> r.entry, decision |-> r.decision, overwrite |-> FALSE,
    output_dir |-> NULL ]

\* ... or a call of Downloader.download with its options
Called(i, j, url, overwrite, output_dir) ==
  [ kind |-> "download", i |-> i, j |-> j, video_id |-> NULL, url |-> url,
    found |-> << >>, decision |-> ProceedDefault, overwrite |-> overwrite,
    output_dir |-> output_dir ]

\* dl.download(opts) is called: the state of Downloader.download at its
\* start, and the call in the trace
Download(url, overwrite, output_dir, trace) ==
  /\ r_opts' = [r_opts EXCEPT !.url = url]
  /\ r_pc' = "attempt"
  /\ r_attempt' = 0
  /\ r_delay' = 0
  /\ r_slept' = << >>
  /\ r_info' = NULL
  /\ r_files' = << >>
  /\ r_error' = NULL
  /\ r_trace' = << >>
  /\ c_pc' = "downloading"
  /\ c_trace' = Append(trace, Called(c_i, c_j, url, overwrite, output_dir))
  /\ UNCHANGED << r_hist, r_imports, r_decision, r_faults >>

\* a preflight loop that keeps the URLs the user skipped
Preflighted_KeepsSkipped(url, r) ==
  /\ downloads' = r.table
  /\ c_trace' = Append(c_trace, Asked(c_i, 0, history_identifier(url), url, r))
  /\ c_urls' = Append(c_urls, url)
  /\ c_pre' = Append(c_pre, r.decision)
  /\ c_i' = c_i + 1
  /\ UNCHANGED << c_pc, c_exit >>

\* what the preflight call r for url leaves
Preflighted(url, r) ==
  /\ downloads' = r.table
  /\ c_trace' = Append(c_trace, Asked(c_i, 0, history_identifier(url), url, r))
  /\ c_urls' = IF r.decision.proceed THEN Append(c_urls, url) ELSE c_urls
  /\ c_pre' = IF r.decision.proceed THEN Append(c_pre, r.decision) ELSE c_pre
  /\ c_i' = c_i + 1
  /\ UNCHANGED << c_pc, c_exit >>

\* the video_id the entry's decision is asked with (cli.py 1017, 1280-1282)
EntryVideoId(entry) ==
  IF c_cfg.mode = "interactive" THEN entry.id ELSE history_identifier(entry.id)

\* the overwrite option of an entry's download before its decision: the
\* container's preflight decision, in the interactive mode also the answer
\* to ask_overwrite_all (cli.py 856-858, 1013, 1277)
EntryOverwrite ==
  IF c_cfg.mode = "interactive"
    THEN c_cfg.overwrite_all \/ c_pre[c_i].overwrite
    ELSE c_pre[c_i].overwrite

\* what the decision call r for an entry leaves
EntryDecided(entry, r) ==
  /\ downloads' = r.table
  /\ IF r.decision.proceed
       THEN /\ Download(get_entry_url(entry),
                        EntryOverwrite \/ r.decision.overwrite,
                        Or(r.decision.new_output,
                           Or(c_pre[c_i].new_output, CFG_OUTPUT)),
                        Append(c_trace,
                               Asked(c_i, c_j, EntryVideoId(entry),
                                     get_entry_url(entry), r)))
            /\ UNCHANGED << c_i, c_j >>
       ELSE /\ c_trace' = Append(c_trace,
                                 Asked(c_i, c_j, EntryVideoId(entry),
                                       get_entry_url(entry), r))
            /\ c_j' = c_j + 1
            /\ UNCHANGED << run_vars, c_pc, c_i >>

CliInit ==
  /\ db_path = NULL
  /\ \E evs \in CliPriorEvents :
       /\ downloads = WriteEvents(<< >>, evs, 1, 0)
       /\ table_exists = (evs # << >>)
  /\ clock = 1
  /\ log = << >>
  /\ prev = << >>
  /\ last = [op |-> "none", arg |-> << >>, result |-> << >>]
  /\ NormIdle
  /\ PauseIdle
  /\ r_pc = "start"
  /\ r_opts = << >>
  /\ r_hist = FALSE
  /\ r_imports = << >>
  /\ r_decision = << >>
  /\ r_attempt = 0
  /\ r_delay = 0
  /\ r_slept = << >>
  /\ r_info = NULL
  /\ r_files = << >>
  /\ r_error = NULL
  /\ r_trace = << >>
  /\ r_faults = << >>
  /\ c_pc = "start"
  /\ c_cfg = << >>
  /\ c_urls = << >>
  /\ c_pre = << >>
  /\ c_i = 0
  /\ c_j = 0
  /\ c_trace = << >>
  /\ c_count = << >>
  /\ c_exit = NULL

\* the command line is read
CliStart ==
  /\ c_pc = "start"
  /\ \E cfg \in CliConfigs :
       /\ c_cfg' = [urls |-> cfg.urls, mode |-> cfg.mode,
                   dry_run |-> cfg.dry_run,
                   overwrite_all |-> cfg.overwrite_all,
                   initial |-> downloads]
       /\ r_opts' = [url |-> cfg.urls[1], retry |-> 1, retry_delay |-> 0,
                     dry_run |-> cfg.dry_run, save_metadata |-> << >>]
  /\ r_pc' = "history"
  /\ c_pc' = "preflight"
  /\ c_i' = 1
  /\ c_count' = [failed |-> 0, total_files |-> 0]
  /\ UNCHANGED << norm_vars, pause_vars, store_vars, r_hist, r_imports, r_decision, r_attempt, r_delay,
                  r_slept, r_info, r_files, r_error, r_trace, r_faults, c_urls, c_pre, c_j,
                  c_trace, c_exit >>

\* one round of the preflight loop (cli.py 718-740): the decision for the
\* next URL; after the last one the exit with code 0 when no URL is left.
\* Without history every URL proceeds and the driver is not called.
CliPreflight ==
  /\ c_pc = "preflight"
  /\ r_pc = "preflight"
  /\ IF ~r_hist
       THEN /\ c_urls' = c_cfg.urls
            /\ c_pre' = [k \in 1..Len(c_cfg.urls) |-> ProceedDefault]
            /\ c_pc' = "loop"
            /\ c_i' = 1
            /\ UNCHANGED << downloads, c_trace, c_exit >>
     ELSE IF c_i > Len(c_cfg.urls)
       THEN /\ c_pc' = IF c_urls = << >> THEN "exit" ELSE "loop"
            /\ c_exit' = IF c_urls = << >> THEN << 0 >> ELSE c_exit
            /\ c_i' = 1
            /\ UNCHANGED << downloads, c_urls, c_pre, c_trace >>
     ELSE \E typed \in Choices :
            Preflighted(c_cfg.urls[c_i],
                        prompt_history_decision(
                          downloads, r_hist,
                          history_identifier(c_cfg.urls[c_i]),
                          c_cfg.urls[c_i], typed, FALSE, FALSE))
  /\ UNCHANGED << norm_vars, pause_vars, db_path, table_exists, clock, log, prev, last,
                  run_vars, c_cfg, c_j, c_count >>

\* the next URL of the main loop (cli.py 760-1399): a playlist is expanded
\* in pause mode and in the interactive mode, unless its info cannot be
\* fetched; any other URL is downloaded with the options its preflight
\* decision gives
CliItem ==
  /\ c_pc = "loop"
  /\ c_i <= Len(c_urls)
  /\ IF c_cfg.mode # "plain" /\ Catalog(c_urls[c_i]).entries # << >>
       THEN /\ \E fetched \in BOOLEAN :
                 /\ c_pc' = IF fetched THEN "entries" ELSE "loop"
                 /\ c_j' = IF fetched THEN 1 ELSE 0
                 /\ c_i' = IF fetched THEN c_i ELSE c_i + 1
                 /\ c_count' = [c_count EXCEPT
                                  !.failed = IF fetched THEN @ ELSE @ + 1]
            /\ UNCHANGED << run_vars, c_trace >>
       ELSE /\ Download(c_urls[c_i], c_pre[c_i].overwrite,
                        Or(c_pre[c_i].new_output, CFG_OUTPUT), c_trace)
            /\ UNCHANGED << c_i, c_j, c_count >>
  /\ UNCHANGED << norm_vars, pause_vars, store_vars, c_cfg, c_urls, c_pre, c_exit >>

\* the next entry of an expanded playlist (cli.py 932-1027, 1250-1294): an
\* entry without URL is passed over; the driver is asked with the entry's
\* id (normalized in pause mode, as it is in the interactive mode) and the
\* entry's URL; a proceeding decision starts the download of the entry
CliEntry ==
  /\ c_pc = "entries"
  /\ IF c_j > Len(Catalog(c_urls[c_i]).entries)
       THEN /\ c_pc' = "loop"
            /\ c_i' = c_i + 1
            /\ c_j' = 0
            /\ UNCHANGED << downloads, run_vars, c_trace >>
     ELSE IF get_entry_url(Catalog(c_urls[c_i]).entries[c_j]) = EMPTY
       THEN /\ c_j' = c_j + 1
            /\ UNCHANGED << downloads, run_vars, c_pc, c_i, c_trace >>
     ELSE \E typed \in Choices :
            EntryDecided(
              Catalog(c_urls[c_i]).entries[c_j],
              prompt_history_decision(
                downloads, r_hist,
                EntryVideoId(Catalog(c_urls[c_i]).entries[c_j]),
                get_entry_url(Catalog(c_urls[c_i]).entries[c_j]),
                typed, FALSE, FALSE))
  /\ UNCHANGED << norm_vars, pause_vars, db_path, table_exists, clock, log, prev, last,
                  c_cfg, c_urls, c_pre, c_count, c_exit >>

\* after dl.download returned or raised (cli.py 1429-1451): the counters,
\* then the next entry or URL
CliAfterDownload ==
  /\ c_pc = "downloading"
  /\ r_pc \in {"returned", "raised"}
  /\ c_count' =
       IF r_pc = "raised"
         THEN [c_count EXCEPT !.failed = @ + 1]
       ELSE IF c_cfg.dry_run THEN c_count
       ELSE [ failed |-> c_count.failed + (IF r_files = << >> THEN 1 ELSE 0),
              total_files |-> c_count.total_files + Len(r_files) ]
  /\ r_pc' = "idle"
  /\ c_pc' = IF c_j = 0 THEN "loop" ELSE "entries"
  /\ c_i' = IF c_j = 0 THEN c_i + 1 ELSE c_i
  /\ c_j' = IF c_j = 0 THEN 0 ELSE c_j + 1
  /\ UNCHANGED << norm_vars, pause_vars, store_vars, r_opts, r_hist, r_imports, r_decision, r_attempt,
                  r_delay, r_slept, r_info, r_files, r_error, r_trace, r_faults, c_cfg, c_urls,
                  c_pre, c_trace, c_exit >>

\* an exit code that is 1 whenever an item failed
ExitCode_FailedIsOne(dry_run, failed, total_files) ==
  IF dry_run THEN 0
  ELSE IF failed > 0 THEN 1
  ELSE IF total_files > 0 THEN 0
  ELSE 2

\* the exit code (cli.py 1457-1472)
ExitCode(dry_run, failed, total_files) ==
  IF dry_run THEN 0
  ELSE IF failed = 0 /\ total_files > 0 THEN 0
  ELSE IF failed > 0 /\ total_files > 0 THEN 2
  ELSE IF failed > 0 /\ total_files = 0 THEN 1
  ELSE 2

\* the end of the main loop
CliExit ==
  /\ c_pc = "loop"
  /\ c_i > Len(c_urls)
  /\ c_pc' = "exit"
  /\ c_exit' = << ExitCode(c_cfg.dry_run, c_count.failed, c_count.total_files) >>
  /\ UNCHANGED << norm_vars, pause_vars, store_vars, run_vars, c_cfg, c_urls, c_pre, c_i,
                  c_j, c_trace, c_count >>

CliNext ==
  \/ CliStart
  \/ InitializeHistory
  \/ CliPreflight
  \/ CliItem
  \/ CliEntry
  \/ Preview
  \/ Fetch
  \/ HandleError
  \/ CliAfterDownload
  \/ CliExit

SpecCli == CliInit /\ [][CliNext]_vars

(***************************************************************************)
(* The pause mode (pause.py, cli.py 745-758, 1250-1358, 1453-1455): the    *)
(* main thread downloads the entries of a playlist one by one and asks the *)
(* PauseController after an entry, while the listener thread reads the     *)
(* keyboard.  Both threads read keys with msvcrt.kbhit/getch, so a key     *)
(* goes to whichever thread polls first.  An entry is taken by its outcome *)
(* and the record its download leaves.                                     *)
(***************************************************************************)
\* the entries of the playlist
MaxItems == 2

\* the keys pressed during a run
MaxKeys == 3

\* pause_key and resume_key as cmd_download passes them
PAUSE_KEY == "p"
RESUME_KEY == "r"

\* the keys of the keyboard: the two above, their capitals, Enter, another
Keyboard == {"p", "P", "r", "\r", "x"}

\* how the processing of an entry ends (cli.py 1252-1354)
Outcomes == {"success", "failed", "network skip", "history skip", "no url"}

\* the (video_id, url) of the i-th entry
ItemPair(i) == IF i = 1 THEN << ID_A, WATCH_A >>
               ELSE IF i = 2 THEN << ID_B, WATCH_B >>
               ELSE << VK_ID, URL_VK >>

\* the run has initialized its history and reaches the pause-mode loop
PauseInit ==
  /\ db_path = DB_FILE
  /\ table_exists = TRUE
  /\ downloads = << >>
  /\ clock = 1
  /\ log = << >>
  /\ prev = << >>
  /\ last = [op |-> "none", arg |-> << >>, result |-> << >>]
  /\ NormIdle
  /\ RunIdle
  /\ CliIdle
  /\ p_pc = "start"
  /\ p_i = 0
  /\ p_flag = FALSE
  /\ p_listener = "off"
  /\ p_keys = << >>
  /\ p_pressed = 0
  /\ p_trace = << >>

\* the user presses a key
PressKey ==
  /\ p_pressed < MaxKeys
  /\ p_pc \in {"item", "paused"}
  /\ \E key \in Keyboard : p_keys' = Append(p_keys, key)
  /\ p_pressed' = p_pressed + 1
  /\ UNCHANGED << norm_vars, store_vars, run_vars, cli_vars, p_pc, p_i, p_flag,
                  p_listener, p_trace >>

\* PauseController(...).enable() and the start of the loop: the listener
\* thread runs where msvcrt can be imported and returns at once elsewhere
Enable ==
  /\ p_pc = "start"
  /\ \E msvcrt \in BOOLEAN :
       p_listener' = IF msvcrt THEN "running" ELSE "returned"
  /\ p_pc' = "item"
  /\ p_i' = 1
  /\ p_trace' = Append(p_trace, << "begin", 1 >>)
  /\ UNCHANGED << norm_vars, store_vars, run_vars, cli_vars, p_flag, p_keys,
                  p_pressed >>

\* the step after entry p_i: the next entry, or the end of the loop
NextItem ==
  /\ p_pc' = IF p_i < MaxItems THEN "item" ELSE "ended"
  /\ p_i' = IF p_i < MaxItems THEN p_i + 1 ELSE p_i

\* one round of _keyboard_listener: a key that is ready is read, and the
\* pause key sets the flag
ListenerPoll ==
  /\ p_listener = "running"
  /\ p_keys # << >>
  /\ p_keys' = Tail(p_keys)
  /\ p_flag' = (p_flag \/ LowerChar(Head(p_keys)) = PAUSE_KEY)
  /\ p_trace' = Append(p_trace,
                       << IF LowerChar(Head(p_keys)) # PAUSE_KEY THEN "taken"
                          ELSE IF p_pc = "item" THEN "set" ELSE "set late",
                          p_i >>)
  /\ UNCHANGED << norm_vars, store_vars, run_vars, cli_vars, p_pc, p_i,
                  p_listener, p_pressed >>

\* the end of the processing of entry p_i.  Every outcome but success goes
\* on to the next entry with continue; after a success the loop asks
\* is_pause_requested and calls wait_if_paused, which blocks when the flag
\* is set
FinishItem ==
  /\ p_pc = "item"
  /\ \E outcome \in Outcomes :
       /\ IF outcome \in {"success", "failed"}
            THEN /\ downloads' =
                      record_event(downloads,
                                   EventOf(ItemPair(p_i),
                                           IF outcome = "success"
                                             THEN SUCCESS ELSE FAILED,
                                           clock))
                 /\ Logged("record_event", ItemPair(p_i), outcome)
            ELSE UNCHANGED << downloads, clock, log, prev, last >>
       /\ IF outcome = "success" /\ p_flag
            THEN /\ p_pc' = "paused"
                 /\ p_i' = p_i
                 /\ p_trace' = p_trace \o << << outcome, p_i >>,
                                            << "block", p_i >> >>
            ELSE /\ NextItem
                 /\ p_trace' = p_trace \o
                      (IF p_i < MaxItems
                         THEN << << outcome, p_i >>, << "begin", p_i + 1 >> >>
                         ELSE << << outcome, p_i >> >>)
  /\ UNCHANGED << norm_vars, run_vars, cli_vars, db_path, table_exists, p_flag,
                  p_listener, p_keys, p_pressed >>

\* one round of the loop of wait_if_paused: a key that is ready is read,
\* and the resume key or Enter clears the flag and returns
WaitPoll ==
  /\ p_pc = "paused"
  /\ p_keys # << >>
  /\ p_keys' = Tail(p_keys)
  /\ IF LowerChar(Head(p_keys)) \in {RESUME_KEY, "\r"}
       THEN /\ p_flag' = FALSE
            /\ NextItem
            /\ p_trace' = p_trace \o
                 (IF p_i < MaxItems
                    THEN << << "resume", p_i >>, << "begin", p_i + 1 >> >>
                    ELSE << << "resume", p_i >> >>)
       ELSE /\ p_trace' = Append(p_trace, << "ignored", p_i >>)
            /\ UNCHANGED << p_pc, p_i, p_flag >>
  /\ UNCHANGED << norm_vars, store_vars, run_vars, cli_vars, p_listener,
                  p_pressed >>

\* pause_controller.disable() after the loop: the listener is stopped
Disable ==
  /\ p_pc = "ended"
  /\ p_pc' = "disabled"
  /\ p_listener' = IF p_listener = "running" THEN "returned" ELSE p_listener
  /\ UNCHANGED << norm_vars, store_vars, run_vars, cli_vars, p_i, p_flag,
                  p_keys, p_pressed, p_trace >>

PauseNext ==
  \/ PressKey
  \/ Enable
  \/ ListenerPoll
  \/ FinishItem
  \/ WaitPoll
  \/ Disable

SpecPause == PauseInit /\ [][PauseNext]_vars

\* both threads poll ten times a second for as long as they run
SpecPauseFair ==
  /\ SpecPause
  /\ WF_vars(ListenerPoll)
  /\ WF_vars(WaitPoll)

(***************************************************************************)
(* Claims about the download run.                                          *)
(***************************************************************************)
\* the extract_info calls of the trace that raised: the failed attempts
RECURSIVE Failures(_)
Failures(trace) ==
  IF trace = << >> THEN 0
  ELSE (IF trace[1] \in {"preview raises", "download raises"} THEN 1 ELSE 0)
       + Failures(Tail(trace))

LastCall == r_trace[Len(r_trace)]

\* C8: no failure of a history operation (schema creation, record_event,
\* fetch, write-back update) aborts or fails the download: no history
\* exception leaves the run, without a usable history the decision is to
\* proceed, and the download returns or raises as the extract_info calls
\* alone determine: it returns on the first attempt whose calls succeed and
\* raises when max(1, retry) attempts have failed.
C8_HistoryNeverAborts ==
  /\ r_pc # "aborted"
  /\ r_error # << "history" >>
  /\ (r_pc \in {"attempt", "fetch", "except", "returned", "raised"}
        /\ (~r_hist \/ \E i \in 1..Len(r_faults) : r_faults[i] = "fetch"))
       => r_decision = ProceedDefault
  /\ r_pc = "returned" =>
       /\ LastCall = "download ok"
       /\ r_attempt = Failures(r_trace) + 1
       /\ r_attempt <= Attempts(r_opts.retry)
  /\ r_pc = "raised" =>
       /\ LastCall \in {"preview raises", "download raises"}
       /\ r_attempt = Failures(r_trace)
       /\ r_attempt = Attempts(r_opts.retry)
  /\ r_pc = "except" =>
       /\ LastCall \in {"preview raises", "download raises"}
       /\ r_attempt = Failures(r_trace)
  /\ r_pc = "attempt" =>
       /\ r_attempt = Failures(r_trace)
       /\ r_attempt < Attempts(r_opts.retry)

\* a download that returned although the schema creation and both history
\* writes failed
C8_Witness ==
  /\ r_pc = "returned"
  /\ ~r_opts.dry_run
  /\ r_faults = << "ensure_schema fails", "record_event", "record_event" >>
  /\ r_attempt = 1
  /\ log = << >>

\* the keys the history writes of the download() call targeted
WrittenKeys == {log[n].result : n \in 1..Len(log)}

\* C9 as stated: when download() of one video fails on an attempt and
\* succeeds on a later one, with every history write succeeding, all the
\* writes target one key and the store holds exactly one record for the
\* video, with status success.
C9_RetryWritesOneKey ==
  (/\ r_pc = "returned"
   /\ ~r_opts.dry_run
   /\ r_attempt > 1
   /\ r_faults = << >>
   /\ r_opts.url \in {URL_YT, URL_VK})
    => /\ Cardinality(WrittenKeys) = 1
       /\ Cardinality({i \in 1..Len(downloads) :
                         downloads[i].video_id \in WrittenKeys}) = 1
       /\ \A i \in 1..Len(downloads) :
            downloads[i].video_id \in WrittenKeys =>
              downloads[i].status = SUCCESS

(***************************************************************************)
(* Claims about the event store.                                           *)
(***************************************************************************)
Rows(table) == {table[i] : i \in 1..Len(table)}

\* the fields record_event merges with COALESCE
CoalescedFields ==
  {"title", "started_at", "finished_at", "file_path", "error", "playlist_id",
   "playlist_title"}

\* the stored form of a value supplied for field f
StoredForm(f, v) ==
  IF f \in {"started_at", "finished_at"} THEN normalize_datetime(v)
  ELSE IF f = "file_path" THEN normalize_path(v)
  ELSE v

\* the n-th logged operation is a record_event that targets key k
RecordsKey(n, k) == log[n].op = "record_event" /\ log[n].result = k

\* the keys record_event calls have targeted
RecordedKeys == {log[n].result : n \in {m \in 1..Len(log) : log[m].op = "record_event"}}

\* the bulk import inserted a row with key k
ImportedKey(k) ==
  \E n \in 1..Len(log) :
    log[n].op = "import" /\ RowsWithKey(log[n].result.table, k) # {}

\* the most recent non-null value supplied for field f of key k among the
\* first n logged operations, in its stored form; NULL when there is none
RECURSIVE LastSupplied(_, _, _)
LastSupplied(k, f, n) ==
  IF n = 0 THEN NULL
  ELSE IF RecordsKey(n, k) /\ log[n].arg[f] # NULL
    THEN StoredForm(f, log[n].arg[f])
  ELSE LastSupplied(k, f, n - 1)

\* the last logged operation is a record_event
LastIsRecord == Len(log) > 0 /\ log[Len(log)].op = "record_event"

LastEvent == log[Len(log)].arg
LastKey == log[Len(log)].result

\* C1: for the record_event calls that target one canonical key, each of
\* title, started_at, finished_at, file_path, error, playlist_id and
\* playlist_title of the stored record is the most recent non-null value
\* supplied for it, null when none was supplied: a null never erases.
C1_CoalesceLaw ==
  \A k \in RecordedKeys :
    ~ImportedKey(k) =>
      /\ RowsWithKey(downloads, k) # {}
      /\ \A i \in RowsWithKey(downloads, k) : \A f \in CoalescedFields :
           downloads[i][f] = LastSupplied(k, f, Len(log))

\* B (success, with file_path) then A (in_progress, no file_path) for one
\* key: the record keeps B's file_path
C1_Witness ==
  /\ Len(log) >= 2
  /\ RecordsKey(Len(log) - 1, LastKey)
  /\ log[Len(log) - 1].arg.status = SUCCESS
  /\ log[Len(log) - 1].arg.file_path # NULL
  /\ LastIsRecord
  /\ LastEvent.status = IN_PROGRESS
  /\ LastEvent.file_path = NULL
  /\ \E i \in RowsWithKey(downloads, LastKey) :
       downloads[i].file_path = log[Len(log) - 1].arg.file_path

\* C2: after a record_event the stored status is that of the event just
\* recorded, whatever was stored before, and a file_path the event carries
\* is the stored one.
C2_StatusLastWins ==
  LastIsRecord =>
    /\ RowsWithKey(downloads, LastKey) # {}
    /\ \A i \in RowsWithKey(downloads, LastKey) :
         /\ downloads[i].status = LastEvent.status
         /\ LastEvent.file_path # NULL =>
              downloads[i].file_path = normalize_path(LastEvent.file_path)

\* A (in_progress, no file_path) then B (success, with file_path)
C2_Witness ==
  /\ Len(log) >= 2
  /\ RecordsKey(Len(log) - 1, LastKey)
  /\ log[Len(log) - 1].arg.status = IN_PROGRESS
  /\ LastIsRecord
  /\ LastEvent.status = SUCCESS
  /\ \E i \in RowsWithKey(downloads, LastKey) :
       /\ downloads[i].status = SUCCESS
       /\ downloads[i].file_path = LastEvent.file_path
       /\ downloads[i].title = log[Len(log) - 1].arg.title

\* C3: the table never holds two rows with one key, and the events that
\* normalize to one key share one row.
C3_OneRowPerKey ==
  /\ \A i, j \in 1..Len(downloads) :
       downloads[i].video_id = downloads[j].video_id => i = j
  /\ \A k \in RecordedKeys : Cardinality(RowsWithKey(downloads, k)) = 1

\* a bare id and a watch URL of the same video, recorded into one row
C3_Witness ==
  /\ Len(downloads) = 1
  /\ \E m, n \in 1..Len(log) :
       /\ RecordsKey(m, YT_PREFIX \o ID_A)
       /\ RecordsKey(n, YT_PREFIX \o ID_A)
       /\ log[m].arg.video_id = ID_A
       /\ log[n].arg.video_id = WATCH_A

\* what fetch_download returned is the record written for the last event:
\* under its key, with its url and status and each field it carries
IsRecordOfLastEvent(found) ==
  /\ found # << >>
  /\ found[1].video_id = LastKey
  /\ found[1].url = LastEvent.url
  /\ found[1].status = LastEvent.status
  /\ \A f \in CoalescedFields :
       LastEvent[f] # NULL => found[1][f] = StoredForm(f, LastEvent[f])

C5_Urls == {X_BA, X_AB}

\* the keys the callers of fetch derive from them (cli._history_identifier)
C5_Keys == {history_identifier(u) : u \in C5_Urls}

\* a record_event has stored a record from one of the two URLs
C5_Stored ==
  \E n \in 1..Len(log) :
    /\ log[n].op = "record_event"
    /\ log[n].arg.url \in C5_Urls
    /\ log[n].arg.video_id \in C5_Urls \cup {EMPTY}

LastIsDecision == Len(log) > 0 /\ log[Len(log)].op = "decide"

\* the record the decision driver fetched, and what it decided
FoundEntry == log[Len(log)].result.entry[1]
LastDecision == log[Len(log)].result.decision

\* C10: after a decision on a found record that record has last_action =
\* the decision's action, retry_count one higher if the decision increments
\* retries and unchanged otherwise, and status in_progress if the decision
\* proceeds with an action other than skip and unchanged otherwise.
C10_DecisionWriteBack ==
  LastIsDecision =>
    /\ RowsWithKey(downloads, FoundEntry.video_id) # {}
    /\ \A i \in RowsWithKey(downloads, FoundEntry.video_id) :
         /\ downloads[i].last_action = LastDecision.action
         /\ downloads[i].retry_count =
              IF LastDecision.increment_retry
                THEN << COALESCE(FoundEntry.retry_count, << 0 >>)[1] + 1 >>
                ELSE FoundEntry.retry_count
         /\ downloads[i].status =
              IF LastDecision.proceed /\ LastDecision.action # << "skip" >>
                THEN IN_PROGRESS
                ELSE FoundEntry.status

\* status failed and the choice restart: last_action restart, retry_count
\* one higher, status in_progress
C10_Witness ==
  /\ LastIsDecision
  /\ FoundEntry.status = FAILED
  /\ FoundEntry.retry_count = << 0 >>
  /\ LastDecision.action = << "restart" >>
  /\ \E i \in RowsWithKey(downloads, FoundEntry.video_id) :
       /\ downloads[i].last_action = << "restart" >>
       /\ downloads[i].retry_count = << 1 >>
       /\ downloads[i].status = IN_PROGRESS

(***************************************************************************)
(* Claims about the decision driver.                                       *)
(***************************************************************************)
\* the last call was prompt_history_decision
LastIsDecide == last.op = "decide"

\* the last call of the driver found a record with one of the statuses
DecidedOn(statuses) ==
  /\ LastIsDecide
  /\ last.result.entry # << >>
  /\ last.result.entry[1].status \in statuses

\* what the user typed at that prompt, stripped
LastChoice == Strip(last.arg.typed)

\* C11: for a fetched record with status failed or in_progress, the choice
\* restart gives proceed, overwrite, retry increment and the tag "restart";
\* the choice skip gives no proceeding and no retry increment; any other
\* input gives resume: proceed, no overwrite, retry increment, tag "resume".
C11_UnfinishedMenu ==
  DecidedOn({FAILED, IN_PROGRESS}) =>
    LET d == last.result.decision
    IN IF LastChoice = << "2" >>
         THEN /\ d.proceed /\ d.overwrite /\ d.increment_retry
              /\ d.action = << "restart" >>
       ELSE IF LastChoice = << "0" >>
         THEN ~d.proceed /\ ~d.increment_retry
       ELSE /\ d.proceed /\ ~d.overwrite /\ d.increment_retry
            /\ d.action = << "resume" >>

\* a failed record and an input that is none of the menu's numbers: resume
C11_Witness ==
  /\ DecidedOn({FAILED})
  /\ last.arg.typed = << "3" >>
  /\ last.result.decision.action = << "resume" >>
  /\ last.result.decision.increment_retry

\* C12: for a fetched record with status success, the choice overwrite
\* gives proceed with overwrite and retry increment; the choice download
\* elsewhere gives proceed with a new output directory and retry increment;
\* any other input gives skip: no proceeding and no retry increment.
C12_FinishedMenu ==
  DecidedOn({SUCCESS}) =>
    LET d == last.result.decision
    IN IF LastChoice = << "2" >>
         THEN d.proceed /\ d.overwrite /\ d.increment_retry
       ELSE IF LastChoice = << "3" >>
         THEN d.proceed /\ d.new_output = NEW_DIR /\ d.increment_retry
       ELSE ~d.proceed /\ ~d.increment_retry

\* a finished download and the choice "2 " (stripped to 2): overwrite
C12_Witness ==
  /\ DecidedOn({SUCCESS})
  /\ last.arg.typed = << "2", " " >>
  /\ last.result.decision.overwrite
  /\ last.result.decision.action = << "overwrite" >>

\* C13: when history is unavailable or fetch finds no record, the driver
\* returns proceed with no overwrite and no output directory, asks nothing,
\* and writes nothing: the only driver calls that reach the table are those
\* that found a record.
C13_NoRecordProceeds ==
  /\ (LastIsDecide /\ (~last.arg.available \/ last.result.entry = << >>)) =>
       /\ last.result.decision.proceed
       /\ ~last.result.decision.overwrite
       /\ last.result.decision.new_output = NULL
       /\ last.arg.typed = NULL
       /\ last.result.entry = << >>
  /\ \A n \in 1..Len(log) :
       log[n].op = "decide" =>
         log[n].arg.available /\ log[n].result.entry # << >>

\* history is unavailable although the table holds the record asked about
C13_Witness ==
  /\ LastIsDecide
  /\ ~last.arg.available
  /\ fetch_download(downloads, last.arg.video_id, last.arg.url) # << >>
  /\ last.result.decision = [proceed |-> TRUE, overwrite |-> FALSE,
                             new_output |-> NULL, action |-> NULL,
                             increment_retry |-> FALSE]

\* C14 as stated: for a fetched record whose status is none of success,
\* failed, in_progress, the input no gives no proceeding and any other input
\* gives proceeding with no overwrite, no output directory and no retry
\* increment.
C14_OtherStatusBinary ==
  (/\ LastIsDecide
   /\ last.result.entry # << >>
   /\ last.result.entry[1].status \notin {SUCCESS, FAILED, IN_PROGRESS}) =>
    LET d == last.result.decision
    IN IF LastChoice = << "0" >>
         THEN ~d.proceed
         ELSE d.proceed /\ ~d.overwrite /\ d.new_output = NULL
              /\ ~d.increment_retry

\* C14 amended: the same for a record whose status in lower case is none of
\* success, failed, in_progress.
C14_OtherStatusLowered ==
  (/\ LastIsDecide
   /\ last.result.entry # << >>
   /\ StatusLower(last.result.entry[1].status) \notin {SUCCESS, FAILED, IN_PROGRESS}) =>
    LET d == last.result.decision
    IN IF LastChoice = << "0" >>
         THEN ~d.proceed
         ELSE d.proceed /\ ~d.overwrite /\ d.new_output = NULL
              /\ ~d.increment_retry

\* an imported record with status finished and an input other than no
C14_Witness ==
  /\ DecidedOn({FINISHED})
  /\ last.arg.typed = << "3" >>
  /\ last.result.decision.proceed
  /\ last.result.decision.action = << "proceed" >>

(***************************************************************************)
(* Claims about the normalizer.                                            *)
(***************************************************************************)
\* C6: normalize is idempotent: normalizing a key that normalize returned
\* gives the same key back, whichever of the three forms the key has.
C6_NormalizeIdempotent == n_pc = "rekeyed" => n_rekey = n_key

Asks == {n \in DOMAIN c_trace : c_trace[n].kind = "ask"}
Downloads == {n \in DOMAIN c_trace : c_trace[n].kind = "download"}

\* the calls of the driver for the top-level URL url
TopAsks(url) == {n \in Asks : c_trace[n].j = 0 /\ c_trace[n].url = url}

\* the decision of the preflight loop for url: the default when the driver
\* was not called
TopDecision(url) ==
  IF TopAsks(url) = {} THEN ProceedDefault
  ELSE c_trace[CHOOSE n \in TopAsks(url) : TRUE].decision

\* the decision made for the item the call n of download is for: the one
\* of the preflight loop for a URL, the one asked just before for an entry
OwnDecision(n) ==
  IF c_trace[n].j = 0 THEN TopDecision(c_trace[n].url)
  ELSE c_trace[n - 1].decision

\* the events written in this run under the key of the record the call n
\* of the driver found
EventsFor(n) ==
  {m \in DOMAIN log : /\ log[m].op = "record_event"
                      /\ c_trace[n].found # << >>
                      /\ log[m].result = c_trace[n].found[1].video_id}

\* every top-level URL of the run was asked about and skipped
AllSkipped ==
  \A k \in DOMAIN c_cfg.urls :
    \E n \in TopAsks(c_cfg.urls[k]) : ~c_trace[n].decision.proceed

C15_AllSkipped ==
  /\ c_pc = "exit"
  /\ Len(c_cfg.urls) = 2
  /\ AllSkipped

\* the stored retry counter of row, an absent one counting as 0
RetryOf(row) == COALESCE(row.retry_count, << 0 >>)[1]

\* the retry counter the record of key k had when the run started
InitialRetry(k) ==
  IF RowsWithKey(c_cfg.initial, k) = {} THEN 0
  ELSE RetryOf(c_cfg.initial[CHOOSE i \in RowsWithKey(c_cfg.initial, k) : TRUE])

\* the calls of the driver for entries of expanded playlists
EntryAsks == {n \in Asks : c_trace[n].j > 0}

\* C16 as stated: with the history available the decision driver is called
\* exactly once for every top-level URL, before any call of download, and
\* at most once for an entry of an expanded playlist, the entries being
\* asked about in order; the record a container decision found and the
\* record a child decision found never have the same key, and no record's
\* retry counter is more than 1 above its value at the start of the run.
C16_IndependentDecisions ==
  (c_pc \notin {"idle", "start"} /\ r_pc # "history" /\ r_hist) =>
    /\ c_pc # "preflight" =>
         \A k \in DOMAIN c_cfg.urls : Cardinality(TopAsks(c_cfg.urls[k])) = 1
    /\ \A n \in Asks \ EntryAsks : \A m \in Downloads \cup EntryAsks : n < m
    /\ \A n \in EntryAsks : \A m \in EntryAsks :
         (c_trace[n].i = c_trace[m].i /\ c_trace[n].j = c_trace[m].j) => n = m
    /\ \A n \in EntryAsks : \A m \in EntryAsks :
         n < m => c_trace[n].j < c_trace[m].j
    /\ \A n \in Asks \ EntryAsks : \A m \in EntryAsks :
         (c_trace[n].found # << >> /\ c_trace[m].found # << >>) =>
           c_trace[n].found[1].video_id # c_trace[m].found[1].video_id
    /\ \A i \in DOMAIN downloads :
         RetryOf(downloads[i]) <= InitialRetry(downloads[i].video_id) + 1

(***************************************************************************)
(* Claims about retry_count, last_action and the life of a record          *)
(***************************************************************************)
\* the n-th logged operation is a decision that found a record, and only
\* events were recorded since
WrittenBackThenEvents(n) ==
  /\ log[n].op = "decide"
  /\ log[n].result.entry # << >>
  /\ \A m \in (n + 1)..Len(log) : log[m].op = "record_event"

\* the retry counter the write-back of the decision n leaves
RetryAfter(n) ==
  IF log[n].result.decision.increment_retry
    THEN << RetryOf(log[n].result.entry[1]) + 1 >>
    ELSE log[n].result.entry[1].retry_count

\* C17: record_event leaves retry_count and last_action of every record
\* that existed before the call as they were, so that after a decision's
\* write-back and any number of later events the found record still has
\* the decision's action tag and the retry counter the write-back left.
C17_EventsKeepWriteBack ==
  /\ LastIsRecord =>
       \A i \in DOMAIN prev :
         /\ RowsWithKey(downloads, prev[i].video_id) # {}
         /\ \A j \in RowsWithKey(downloads, prev[i].video_id) :
              /\ downloads[j].retry_count = prev[i].retry_count
              /\ downloads[j].last_action = prev[i].last_action
  /\ \A n \in DOMAIN log :
       WrittenBackThenEvents(n) =>
         \A j \in RowsWithKey(downloads, log[n].result.entry[1].video_id) :
           /\ downloads[j].last_action = log[n].result.decision.action
           /\ downloads[j].retry_count = RetryAfter(n)

\* an event, a decision on its record that increments the retry counter,
\* then another event for the same key: the counter and the tag are kept
C17_Witness ==
  /\ Len(log) = 3
  /\ LastIsRecord
  /\ WrittenBackThenEvents(2)
  /\ log[2].result.decision.increment_retry
  /\ log[2].result.entry[1].video_id = LastKey
  /\ \E j \in RowsWithKey(downloads, LastKey) :
       /\ downloads[j].retry_count = << 1 >>
       /\ downloads[j].last_action = log[2].result.decision.action
       /\ downloads[j].status = LastEvent.status

\* C18: a record starts with retry_count 0, whether record_event or the
\* import inserts it, and no step of the store lowers the retry_count of a
\* record.
C18_RetryMonotonic ==
  [][ /\ \A i \in DOMAIN downloads :
           \E j \in DOMAIN downloads' :
             /\ downloads'[j].video_id = downloads[i].video_id
             /\ RetryOf(downloads'[j]) >= RetryOf(downloads[i])
      /\ \A j \in DOMAIN downloads' :
           RowsWithKey(downloads, downloads'[j].video_id) = {} =>
             downloads'[j].retry_count = << 0 >> ]_vars

\* an imported record whose counter two later operations raised to 2, next
\* to an imported record still at 0
C18_Witness ==
  /\ Len(log) = 3
  /\ log[1].op = "import"
  /\ \E j \in DOMAIN downloads : downloads[j].retry_count = << 2 >>
  /\ \E j \in DOMAIN downloads : downloads[j].retry_count = << 0 >>

\* the canonical keys in the table
Keys(table) == {table[i].video_id : i \in DOMAIN table}

\* C19: no step of the store (init_db, ensure_schema, record_event, the
\* decision driver's fetch and update, update, import) removes a record:
\* every key in the table before the step is in the table after it.
C19_KeysOnlyGrow ==
  [][Keys(downloads) \subseteq Keys(downloads')]_vars

\* an event that updated an existing record while two other records were
\* in the table
C19_Witness ==
  /\ Len(log) = 3
  /\ LastIsRecord
  /\ RowsWithKey(prev, LastKey) # {}
  /\ Cardinality(Keys(downloads)) >= 3
  /\ Keys(downloads) = Keys(prev)

\* the call c of update_download has nothing to select by, or nothing to set
NothingToDo(c) ==
  \/ c.video_id = EMPTY /\ c.url = EMPTY
  \/ c.status = NULL /\ c.last_action = NULL /\ ~c.retry_increment

\* C20: a call of update_download without video_id and url, or with none
\* of status, last_action and retry_increment, leaves the table as it is;
\* any other call that does not raise leaves the records it does not match
\* (by video_id or by url) as they are, and the counter of a matched record
\* is its stored value plus 1 when retry_increment is true and its stored
\* value otherwise.  A counter that is absent counts as 0.
C20_UpdateLaw ==
  [][ last'.op = "update" =>
        IF NothingToDo(last'.arg) \/ last'.result = RuntimeError
          THEN downloads' = downloads
          ELSE /\ Len(downloads') = Len(downloads)
               /\ \A i \in DOMAIN downloads :
                    IF Matches(downloads[i], last'.arg.video_id, last'.arg.url)
                      THEN /\ downloads'[i].video_id = downloads[i].video_id
                           /\ downloads'[i].retry_count =
                                << RetryOf(downloads[i]) +
                                   (IF last'.arg.retry_increment THEN 1 ELSE 0) >>
                           /\ UpdatedRow([downloads[i] EXCEPT !.retry_count = NULL],
                                         NULL, TRUE, NULL).retry_count = << 1 >>
                      ELSE downloads'[i] = downloads[i] ]_vars

\* the records of prev that the last call of update_download matched
MatchedByLast ==
  {i \in DOMAIN prev : Matches(prev[i], last.arg.video_id, last.arg.url)}

\* an update by url with retry_increment that matched two records and
\* raised the counter of each from 0 to 1
C20_Witness ==
  /\ Len(log) > 0
  /\ last = log[Len(log)]
  /\ last.op = "update"
  /\ last.arg.retry_increment
  /\ Cardinality(MatchedByLast) = 2
  /\ \A i \in MatchedByLast :
       prev[i].retry_count = << 0 >> /\ downloads[i].retry_count = << 1 >>

\* a call with nothing to select by and a call with nothing to set, each
\* with a record in the table that the other arguments would have changed
C20_NoOpCalls ==
  /\ last.op = "update"
  /\ NothingToDo(last.arg)
  /\ last.result = NULL
  /\ \E i \in DOMAIN downloads :
       \/ last.arg.url = EMPTY /\ last.arg.retry_increment
       \/ Matches(downloads[i], last.arg.video_id, last.arg.url)

(***************************************************************************)
(* Claims about the reads: fetch_download and list_downloads               *)
(***************************************************************************)
\* the last call was a fetch_download that returned
Fetched == last.op = "fetch" /\ last.result.raised = NULL

\* the positions of the records that match the arguments of that call: by
\* key, or by the url column
FetchMatches ==
  {i \in DOMAIN downloads :
     \/ last.arg.video_id # EMPTY /\ downloads[i].video_id = last.arg.video_id
     \/ last.arg.url # EMPTY /\ downloads[i].url = last.arg.url}

\* C21: fetch_download(video_id, url) returns None without both arguments
\* and when no record has the key video_id or the url url; otherwise it
\* returns one of the records that match either way, and that record has a
\* finished_at not older than that of any other matching record: one
\* without finished_at is returned only when no matching record has one.
C21_FetchNewestMatch ==
  Fetched =>
    IF (last.arg.video_id = EMPTY /\ last.arg.url = EMPTY) \/ FetchMatches = {}
      THEN last.result.rows = << >>
      ELSE /\ Len(last.result.rows) = 1
           /\ \E i \in FetchMatches : downloads[i] = last.result.rows[1]
           /\ \A j \in FetchMatches :
                downloads[j].finished_at # NULL =>
                  /\ last.result.rows[1].finished_at # NULL
                  /\ last.result.rows[1].finished_at[1] >= downloads[j].finished_at[1]

\* a fetch by key and url that matched three records, one by key and two
\* by url, one of them without finished_at, and returned the newest
C21_Witness ==
  /\ Fetched
  /\ last.arg.video_id # EMPTY /\ last.arg.url # EMPTY
  /\ Cardinality(FetchMatches) = 3
  /\ \E i \in FetchMatches : downloads[i].finished_at = NULL
  /\ \E i \in FetchMatches : downloads[i].video_id = last.arg.video_id
  /\ last.result.rows[1].url = last.arg.url
  /\ \A j \in FetchMatches :
       downloads[j].finished_at # NULL /\ downloads[j] # last.result.rows[1] =>
         downloads[j].finished_at[1] < last.result.rows[1].finished_at[1]

\* the last call was a list_downloads that returned
ListedLast == last.op = "list" /\ last.result.raised = NULL

\* the timestamp a record is listed by: finished_at, or started_at for a
\* record without finished_at
ListedAt(row) == IF row.finished_at # NULL THEN row.finished_at ELSE row.started_at

\* row is not older than other
NotOlder(row, other) ==
  ListedAt(other) # NULL =>
    ListedAt(row) # NULL /\ ListedAt(row)[1] >= ListedAt(other)[1]

\* the record satisfies every filter of that call; the empty string is no
\* status to filter by
Wanted(row) ==
  /\ last.arg.statuses \ {EMPTY} # {} => row.status \in last.arg.statuses
  /\ last.arg.since # NULL =>
       ListedAt(row) # NULL /\ ListedAt(row)[1] >= last.arg.since[1]
  /\ last.arg.playlist_id # NULL => row.playlist_id = last.arg.playlist_id

\* the records of the table that satisfy the filters, and the listed ones
WantedRows == {r \in Rows(downloads) : Wanted(r)}
ListedRows == {last.result.rows[i] : i \in DOMAIN last.result.rows}

\* C22: the records list_downloads returns are in descending order of
\* finished_at, started_at standing in for an absent finished_at, and with
\* limit n > 0 they are the first n of the filtered records in that order:
\* min(n, number of filtered records) records, none older than a filtered
\* record that is left out.
C22_ListOrderAndLimit ==
  ListedLast =>
    /\ \A i \in DOMAIN last.result.rows : \A j \in DOMAIN last.result.rows :
         i < j => NotOlder(last.result.rows[i], last.result.rows[j])
    /\ (last.arg.limit # NULL /\ last.arg.limit[1] > 0) =>
         /\ ListedRows \subseteq WantedRows
         /\ Cardinality(ListedRows) = Len(last.result.rows)
         /\ Len(last.result.rows) =
              IF Cardinality(WantedRows) < last.arg.limit[1]
                THEN Cardinality(WantedRows) ELSE last.arg.limit[1]
         /\ \A r \in ListedRows : \A o \in WantedRows \ ListedRows : NotOlder(r, o)

\* records A, B, C finished at 1, 2, 3 with statuses success, failed,
\* success: list(statuses=[success], limit=1) returned exactly C
C22_Witness ==
  /\ ListedLast
  /\ last.arg.statuses = {SUCCESS} /\ last.arg.limit = << 1 >>
  /\ Len(downloads) = 3
  /\ \A i \in 1..3 : downloads[i].finished_at = << i >>
  /\ downloads[1].status = SUCCESS
  /\ downloads[2].status = FAILED
  /\ downloads[3].status = SUCCESS
  /\ last.result.rows = << downloads[3] >>

\* C23: list_downloads returns only records that satisfy every supplied
\* filter (status in the set, COALESCE(finished_at, started_at) >= since,
\* playlist_id equal), each once, and when limit is absent or <= 0 it
\* returns every such record; an absent filter does not restrict.
C23_ListFilters ==
  ListedLast =>
    /\ ListedRows \subseteq WantedRows
    /\ Cardinality(ListedRows) = Len(last.result.rows)
    /\ (last.arg.limit = NULL \/ last.arg.limit[1] <= 0) => ListedRows = WantedRows

\* a list with since and a negative limit that returned the record stamped
\* exactly since, together with a newer one, and left an older one out
C23_Witness ==
  /\ ListedLast
  /\ last.arg.since # NULL /\ last.arg.limit # NULL /\ last.arg.limit[1] < 0
  /\ Len(last.result.rows) = 2
  /\ ListedAt(last.result.rows[2]) = last.arg.since
  /\ ListedAt(last.result.rows[1])[1] > last.arg.since[1]
  /\ \E r \in Rows(downloads) : ListedAt(r) # NULL /\ ListedAt(r)[1] < last.arg.since[1]

(***************************************************************************)
(* Claims about the import of a metadata log.                              *)
(***************************************************************************)
\* this step is a call of import_from_jsonl, one that got as far as
\* reading the lines into an empty table
ImportStep == last'.op = "import"
ImportIntoEmpty ==
  /\ ImportStep
  /\ last'.arg.is_file
  /\ last'.result.raised = NULL
  /\ downloads = << >>

NoneAdded == [raised |-> NULL, added |-> 0]

\* the lines that are objects with an identifier: a non-empty id, video_id,
\* display_id or url
Importable(lines) ==
  {i \in DOMAIN lines :
     /\ lines[i].kind = "object"
     /\ \E v \in {lines[i].data.id, lines[i].data.video_id,
                   lines[i].data.display_id, lines[i].data.url} : v # EMPTY}

\* the key record_event gives an event with the line's identifier and url
LineKey(d) ==
  EventKey([video_id |-> RawVideoId(d),
            url |-> Or(d.webpage_url, Or(d.original_url, d.url))])

LineKeys(lines) == {LineKey(lines[i].data) : i \in Importable(lines)}

\* the first line of the log that has the key k
FirstWithKey(lines, k) ==
  lines[CHOOSE i \in Importable(lines) :
          /\ LineKey(lines[i].data) = k
          /\ \A j \in Importable(lines) : LineKey(lines[j].data) = k => i <= j]

\* C24: an import into a store that holds a record, whether an earlier
\* import or a record_event put it there, returns 0 and leaves the table as
\* it is; so the second of two imports of one log inserts nothing.
C24_ImportGuarded ==
  [][(ImportStep /\ downloads # << >>) =>
       /\ last'.result = NoneAdded
       /\ downloads' = downloads]_vars

\* a log was imported and added rows, and its second import added none
C24_Witness ==
  /\ last.op = "import" /\ last.arg.is_file
  /\ last.result = NoneAdded
  /\ log # << >>
  /\ log[Len(log)].op = "import"
  /\ log[Len(log)].arg = last.arg
  /\ log[Len(log)].result.added > 0
  /\ Len(downloads) = log[Len(log)].result.added

ImportedKeys ==
  UNION {LineKeys(log[i].arg.lines) : i \in {j \in DOMAIN log : log[j].op = "import"}}

Reading(raw) ==
  IF raw = NULL THEN NULL
  ELSE IF raw[1] = "ymd" THEN << raw[2] * 86400 >>
  ELSE IF raw[1] \in {"num", "numtext", "iso"} THEN << raw[2] >>
  ELSE NULL

\* the first of the four fields whose value parses, read as stated
RECURSIVE FirstReading(_)
FirstReading(raws) ==
  IF raws = << >> THEN NULL
  ELSE IF Reading(raws[1]) # NULL THEN Reading(raws[1])
  ELSE FirstReading(Tail(raws))

FinishedAtOf(d) ==
  FirstReading(<< d.epoch, d.timestamp, d.release_timestamp, d.upload_date >>)

\* a line with an 8-digit text that names no date
HasNoDate(d) ==
  \E v \in {d.epoch, d.timestamp, d.release_timestamp, d.upload_date} :
    v # NULL /\ v[1] = "digits"

\* C27: the finished_at of an imported row is the reading of the first of
\* epoch, timestamp, release_timestamp, upload_date whose value parses, a
\* number being epoch seconds and an 8-digit text a calendar date; a line
\* with upload_date alone gets midnight of that date and a line where none
\* parses gets null.
C27_FinishedAtFromFields ==
  [][ImportIntoEmpty =>
       \A k \in LineKeys(last'.arg.lines) :
         \A i \in RowsWithKey(downloads', k) :
           downloads'[i].finished_at =
             FinishedAtOf(FirstWithKey(last'.arg.lines, k).data)]_vars

\* the same for the logs without an 8-digit text that names no date
C27_DatedAsRead ==
  [][(ImportIntoEmpty
        /\ \A j \in Importable(last'.arg.lines) : ~HasNoDate(last'.arg.lines[j].data)) =>
       \A k \in LineKeys(last'.arg.lines) :
         \A i \in RowsWithKey(downloads', k) :
           downloads'[i].finished_at =
             FinishedAtOf(FirstWithKey(last'.arg.lines, k).data)]_vars

\* rows imported from a line with upload_date alone, from a line whose
\* second field is the first that parses, and from a line where none does
C27_Dated ==
  /\ last.op = "import" /\ last.result.raised = NULL /\ last.result.added = 3
  /\ \E r \in Rows(downloads) : r.video_id = YtKey(ID_A) /\ r.finished_at = << 86400 >>
  /\ \E r \in Rows(downloads) : r.video_id = YtKey(ID_B) /\ r.finished_at = << 2 >>
  /\ \E r \in Rows(downloads) : r.finished_at = NULL

\* the row imported from a line whose only timestamp is an 8-digit text
\* that names no date has a finished_at
C27_NoDateRead ==
  /\ last.op = "import" /\ last.result.raised = NULL /\ last.result.added = 1
  /\ HasNoDate(last.arg.lines[1].data)
  /\ downloads[1].finished_at # NULL

\* C28: import_from_jsonl on a path that is no file returns 0, raises
\* nothing and leaves the table as it is, with or without a database path.
C28_MissingFileIsZero ==
  [][(ImportStep /\ ~last'.arg.is_file) =>
       /\ last'.result = NoneAdded
       /\ downloads' = downloads]_vars

\* such a call before init_db, with a log that has lines to import
C28_Witness ==
  /\ last.op = "import" /\ ~last.arg.is_file
  /\ db_path = NULL
  /\ Importable(last.arg.lines) # {}
  /\ last.result = NoneAdded
  /\ downloads = << >>

(***************************************************************************)
(* Claims about ensure_schema and about calls without a database path.     *)
(***************************************************************************)
\* the ten columns of the first schema
FirstColumns ==
  {"video_id", "url", "title", "status", "started_at", "finished_at",
   "file_path", "error", "playlist_id", "playlist_title"}

\* after is the record before with, at most, the two later columns added
SameRecord(before, after) ==
  /\ \A c \in FirstColumns : after[c] = before[c]
  /\ after.last_action = before.last_action
  /\ after.retry_count = IF before.retry_count = NULL THEN << 0 >> ELSE before.retry_count

\* C29: ensure_schema returns true exactly when the table was absent before
\* the call, and the table is there after it; no step removes the table, so
\* every later call returns false.  The call keeps every record with every
\* value it had, and the only change is that records of a table without
\* retry_count and last_action have these columns afterwards.
C29_EnsureSchema ==
  [][/\ (last'.op = "ensure_schema" /\ db_path # NULL) =>
          /\ last'.result = << ~table_exists >>
          /\ table_exists'
          /\ Len(downloads') = Len(downloads)
          /\ \A i \in DOMAIN downloads :
               /\ SameRecord(downloads[i], downloads'[i])
               /\ downloads'[i].retry_count # NULL
     /\ table_exists => table_exists']_vars

\* a later call: it returned false on a table that holds the records of an
\* old history file and a newer one, all with the two columns
C29_Witness ==
  /\ db_path # NULL
  /\ last.op = "ensure_schema" /\ last.result = << FALSE >>
  /\ Len(downloads) = Len(OldRows) + 1
  /\ \A i \in DOMAIN OldRows : SameRecord(OldRows[i], downloads[i])
  /\ \A i \in DOMAIN downloads : downloads[i].retry_count # NULL

\* the creating call: it returned true
C29_Created ==
  /\ db_path # NULL
  /\ last.op = "ensure_schema" /\ last.result = << TRUE >>
  /\ table_exists /\ downloads = << >>

\* this step is a call of one of the six operations without a database path
CallWithoutPath ==
  /\ db_path = NULL
  /\ last'.op \in {"ensure_schema", "record_event", "fetch", "update", "list", "import"}

\* that call raised
RaisedLast ==
  IF last'.op \in {"fetch", "list", "import"}
    THEN last'.result.raised = RuntimeError
    ELSE last'.result = RuntimeError

\* that call returned before it asked for a connection: a fetch or an
\* update without video_id and url, an import of a path that is no file
EarlyReturn ==
  \/ /\ last'.op = "fetch"
     /\ last'.arg.video_id = EMPTY /\ last'.arg.url = EMPTY
     /\ last'.result = [raised |-> NULL, rows |-> << >>]
  \/ /\ last'.op = "update"
     /\ last'.arg.video_id = EMPTY /\ last'.arg.url = EMPTY
     /\ last'.result = NULL
  \/ /\ last'.op = "import"
     /\ ~last'.arg.is_file
     /\ last'.result = NoneAdded

\* C30 as stated: every call of ensure_schema, record_event, fetch, update,
\* list or import without a database path raises.
C30_AlwaysRaises == [][CallWithoutPath => RaisedLast]_vars

\* C30: a call of one of the six operations without a database path raises
\* RuntimeError, unless it is a fetch or an update without video_id and url
\* or an import of a path that is no file, which return None, None and 0
\* without raising; none of these calls creates the table or writes a row.
C30_RaisesUnlessEarlyReturn ==
  [][CallWithoutPath =>
       /\ RaisedLast \/ EarlyReturn
       /\ ~(RaisedLast /\ EarlyReturn)
       /\ UNCHANGED << downloads, table_exists >>]_vars

\* each of the six operations has raised without a database path: the last
\* one is an import of a file, and nothing was created
C30_Witness ==
  /\ db_path = NULL
  /\ last.op = "import" /\ last.arg.is_file
  /\ last.result.raised = RuntimeError
  /\ ~table_exists /\ downloads = << >>

\* a fetch by video_id raised, and a fetch without arguments returned,
\* without a database path
C30_FetchRaised ==
  /\ db_path = NULL
  /\ last.op = "fetch" /\ last.arg.video_id # EMPTY
  /\ last.result.raised = RuntimeError

C30_FetchReturned ==
  /\ db_path = NULL
  /\ last.op = "fetch" /\ last.arg.video_id = EMPTY /\ last.arg.url = EMPTY
  /\ last.result.raised = NULL

(***************************************************************************)
(* Claims about the retry loop of Downloader.download.                     *)
(***************************************************************************)
\* the download() call is over
CallEnded == r_pc \in {"returned", "raised"}

\* the attempts and the waits of a download() call whose first wait is base
RetryLoop(base) ==
  /\ r_attempt <= Attempts(r_opts.retry)
  /\ r_pc = "returned" =>
       /\ LastCall = "download ok"
       /\ r_attempt = Failures(r_trace) + 1
  /\ r_pc = "raised" => r_error = << "download" >>
  /\ CallEnded =>
       (r_pc = "raised" <=> Failures(r_trace) = Attempts(r_opts.retry))
  /\ \A k \in 1..Len(r_slept) : r_slept[k] = base * 2^(k - 1)
  /\ Len(r_slept) = IF r_pc = "attempt" THEN r_attempt
                    ELSE r_attempt - 1

\* C31 as stated: download() makes at most max(1, retry) attempts, returns
\* at the first attempt that succeeds and raises the last error exactly when
\* every attempt failed; the wait before the k-th retry is
\* retry_delay * 2^(k-1), and no wait follows the final failed attempt.
C31_RetryDelayWaits ==
  r_pc # "start" => RetryLoop(r_opts.retry_delay)

\* C31: download() makes at most max(1, retry) attempts, returns at the
\* first attempt that succeeds and raises the last error exactly when every
\* attempt failed; the wait before the k-th retry is
\* max(0, retry_delay) * 2^(k-1), so a negative retry_delay waits not at
\* all, and no wait follows the final failed attempt.
C31_RetryLoop ==
  r_pc # "start" =>
    RetryLoop(IF r_opts.retry_delay > 0 THEN r_opts.retry_delay ELSE 0)

\* three attempts failed: the waits were 3 and 6 seconds, and none followed
\* the third failure
C31_Witness ==
  /\ r_pc = "raised"
  /\ r_opts.retry = 3 /\ r_opts.retry_delay = 3
  /\ r_attempt = 3
  /\ r_slept = << 3, 6 >>

\* a call with a negative retry_delay that returned at its third attempt
C31_NegativeDelay ==
  /\ r_pc = "returned"
  /\ r_opts.retry_delay < 0
  /\ r_slept = << 0, 0 >>

(***************************************************************************)
(* Claims about the exit code of the download command.                     *)
(***************************************************************************)
\* the exit code the counters of the run give
CodeOfCounters ==
  IF c_cfg.dry_run THEN 0
  ELSE IF c_count.failed = 0 /\ c_count.total_files > 0 THEN 0
  ELSE IF c_count.failed > 0 /\ c_count.total_files = 0 THEN 1
  ELSE 2

\* the preflight left no URL to download
NothingLeft == c_urls = << >>

\* C32 as stated: the exit code of the download command is a function of
\* the counters of the run: 0 for a dry run; otherwise 0 if no item failed
\* and a file was saved, 1 if an item failed and no file was saved, and 2 in
\* the remaining cases.
C32_ExitFromCounters ==
  c_pc = "exit" => c_exit = << CodeOfCounters >>

\* C32: a command that runs its main loop to the end exits with the code
\* its counters give (0 for a dry run; otherwise 0 if no item failed and a
\* file was saved, 1 if an item failed and no file was saved, 2 in the
\* remaining cases); a command whose URLs were all skipped by the preflight
\* decisions exits with 0 before the loop.
C32_ExitCode ==
  c_pc = "exit" =>
    c_exit = IF NothingLeft THEN << 0 >> ELSE << CodeOfCounters >>

\* a run that saved a file, failed on another item and exited with 2
C32_Witness ==
  /\ c_pc = "exit"
  /\ ~c_cfg.dry_run
  /\ c_count.failed > 0 /\ c_count.total_files > 0
  /\ c_exit = << 2 >>

\* a run whose loop neither saved nor failed: exit code 2
C32_NothingDone ==
  /\ c_pc = "exit"
  /\ ~c_cfg.dry_run /\ ~NothingLeft
  /\ c_count.failed = 0 /\ c_count.total_files = 0
  /\ c_exit = << 2 >>

\* a run that failed on every item: exit code 1
C32_AllFailed ==
  /\ c_pc = "exit"
  /\ ~c_cfg.dry_run
  /\ c_count.failed > 0 /\ c_count.total_files = 0
  /\ c_exit = << 1 >>

\* every URL was skipped in the preflight of a run that is no dry run
C32_PreflightExit ==
  /\ c_pc = "exit"
  /\ ~c_cfg.dry_run /\ NothingLeft
  /\ c_exit = << 0 >>

(***************************************************************************)
(* Claims about the runs against one store.                                *)
(***************************************************************************)
\* C33: over the runs against one store _initialize_history calls the bulk
\* import at most once, in the run whose ensure_schema created the table,
\* and in no later run, whether that import returned or raised.
C33_ImportAtMostOnce ==
  /\ Len(r_imports) <= 1
  /\ \A i \in 1..Len(r_imports) : r_imports[i].created
  /\ r_imports # << >> => table_exists

\* a later run with a metadata log, after the import of the first run
\* raised: the table is there and no second import was made
C33_Witness ==
  /\ r_pc = "preflight"
  /\ r_hist
  /\ r_opts.save_metadata # << >>
  /\ r_faults = << >>
  /\ r_imports = << [created |-> TRUE, raised |-> TRUE] >>

\* a later run with a metadata log on a store whose first run had none: no
\* import at all
C33_NeverImported ==
  /\ r_pc = "preflight"
  /\ r_hist /\ r_faults = << >>
  /\ r_opts.save_metadata # << >>
  /\ downloads = << >>
  /\ r_imports = << >>

(***************************************************************************)
(* Claims about the records the download workflow leaves.                  *)
(***************************************************************************)
\* the entries of the playlists of the model
CatalogEntries ==
  {Catalog(u).entries[k] : u \in {URL_PL, URL_WL}, k \in 1..2}

\* the (video_id, url) pairs the Decision Driver is called with: a requested
\* URL in the preflight, an entry of a playlist in the pause mode and in the
\* interactive mode
WorkflowQueries ==
  {<< history_identifier(u), u >> : u \in {URL_YT, URL_VK, URL_PL, URL_WL}}
    \cup {<< history_identifier(e.id), get_entry_url(e) >> : e \in CatalogEntries}
    \cup {<< e.id, get_entry_url(e) >> : e \in CatalogEntries}

\* the positions of the records the query q matches
MatchedBy(q) == {i \in DOMAIN downloads : Matches(downloads[i], q[1], q[2])}

\* C34: in a store filled only by the record_event calls of the download
\* workflow, without imported data, no (video_id, url) query of the Decision
\* Driver matches two different records.
C34_QueryMatchesOneRecord ==
  r_imports = << >> =>
    \A q \in WorkflowQueries : Cardinality(MatchedBy(q)) <= 1

\* the keys of the records a failure before any info dict leaves for the
\* URLs that carry no 11-character id
FallbackKeys == {history_identifier(URL_VK), history_identifier(URL_PL)}

\* the same without the records under a fallback key: this holds
C34_WithoutFallbackRecords ==
  (/\ r_imports = << >>
   /\ \A i \in DOMAIN downloads : downloads[i].video_id \notin FallbackKeys)
    => \A q \in WorkflowQueries : Cardinality(MatchedBy(q)) <= 1

(***************************************************************************)
(* Claims about the pause mode.                                            *)
(***************************************************************************)
\* the trace holds the entry e before its position n
Before(n, e) == \E m \in 1..(n - 1) : p_trace[m] = e

\* the outcome of entry i, once it has ended
OutcomeOf(i) ==
  {o \in Outcomes : \E m \in DOMAIN p_trace : p_trace[m] = << o, i >>}

\* the run blocked after entry i whenever the pause key was registered
\* during entry i and entry i + 1 has started
BlockedBetween(i) ==
  \A n \in DOMAIN p_trace :
    (p_trace[n] = << "begin", i + 1 >> /\ Before(n, << "set", i >>))
      => Before(n, << "block", i >>)

\* C35: when the listener registers the pause key while entry i is being
\* processed, the run blocks in wait_if_paused after entry i and before
\* entry i + 1 starts, whatever the outcome of entry i.
C35_PauseAfterEveryItem ==
  \A i \in 1..(MaxItems - 1) : BlockedBetween(i)

\* the same for the entries whose download returned: this holds
C35_PauseAfterSuccess ==
  \A i \in 1..(MaxItems - 1) : OutcomeOf(i) = {"success"} => BlockedBetween(i)

\* the pause key was registered during entry 1, whose download raised, and
\* entry 2 started without a pause
C35_NoPauseAfterFailure ==
  /\ p_trace = << << "begin", 1 >>, << "set", 1 >>, << "failed", 1 >>,
                 << "begin", 2 >> >>
  /\ p_flag

\* a press of the resume key or of Enter waits to be read
ResumePressed ==
  \E k \in DOMAIN p_keys : LowerChar(p_keys[k]) \in {RESUME_KEY, "\r"}

\* wait_if_paused has returned after entry i
Resumed(i) == \E m \in DOMAIN p_trace : p_trace[m] = << "resume", i >>

\* the flag is set by the listener only and cleared by wait_if_paused only,
\* and the listener leaves the Event Store alone: this holds
C36_FlagOwners ==
  [][/\ (~p_flag /\ p_flag') => ListenerPoll
     /\ (p_flag /\ ~p_flag') => WaitPoll
     /\ ListenerPoll => UNCHANGED store_vars]_vars

\* once the main thread is blocked in wait_if_paused, a press of the resume
\* key leads to its return with the flag cleared
C36_ResumeReturns ==
  \A i \in 1..MaxItems :
    (p_pc = "paused" /\ p_i = i /\ ResumePressed) ~> (Resumed(i) /\ ~p_flag)

\* C36: with the listener thread running concurrently, the pause flag is
\* set only by the listener and cleared only by the main thread, the
\* listener never touches the Event Store, and once the main thread is
\* blocked in wait_if_paused a press of the resume key eventually makes it
\* return with the flag cleared.
C36_ListenerAndMain ==
  /\ C36_FlagOwners
  /\ C36_ResumeReturns

\* the main thread is blocked and the listener has taken the resume key:
\* no key is left to read
C36_ResumeKeyTaken ==
  /\ p_pc = "paused"
  /\ p_keys = << >>
  /\ p_trace[Len(p_trace)] = << "taken", p_i >>

(***************************************************************************)
(* Claims about the frame of the write-back.                               *)
(***************************************************************************)
\* the record at position i has the status, retry_count and last_action it
\* had before the last logged operation
Untouched(i) ==
  /\ downloads[i].status = prev[i].status
  /\ downloads[i].retry_count = prev[i].retry_count
  /\ downloads[i].last_action = prev[i].last_action

\* C37: the write-back of the Decision Driver changes only the record its
\* fetch returned: after update(video_id, url, ...) with the pair of the
\* fetch no other record differs in status, retry_count or last_action.
C37_WriteBackOneRecord ==
  LastIsDecision =>
    /\ Len(downloads) = Len(prev)
    /\ \A i \in DOMAIN prev :
         prev[i].video_id # FoundEntry.video_id => Untouched(i)

\* the same for the records the pair of the call does not match: this
\* holds
C37_UnmatchedUntouched ==
  LastIsDecision =>
    /\ Len(downloads) = Len(prev)
    /\ \A i \in DOMAIN prev :
         ~Matches(prev[i], log[Len(log)].arg.video_id, log[Len(log)].arg.url)
           => Untouched(i)

\* a write-back that changed two records
C37_TwoChanged ==
  /\ LastIsDecision
  /\ Cardinality({i \in DOMAIN prev : ~Untouched(i)}) = 2

\* the record at position i has the status, retry_count and last_action it
\* had when the command started
AsAtStart(i) ==
  /\ downloads[i].status = c_cfg.initial[i].status
  /\ downloads[i].retry_count = c_cfg.initial[i].retry_count
  /\ downloads[i].last_action = c_cfg.initial[i].last_action

\* C38: a run with dry_run set leaves the records of the Event Store
\* unchanged: no record is created and no record's status, retry_count or
\* last_action changes, whatever decisions are taken during the run.
C38_DryRunLeavesRecords ==
  (c_pc \notin {"idle", "start"} /\ c_cfg.dry_run) =>
    /\ Len(downloads) = Len(c_cfg.initial)
    /\ \A i \in DOMAIN downloads : AsAtStart(i)

\* the same without the decisions on records found: the downloads of a dry
\* run create and change no record
C38_DryRunDownloadsWriteNothing ==
  (/\ c_pc \notin {"idle", "start"} /\ c_cfg.dry_run
   /\ \A n \in DOMAIN c_trace : c_trace[n].found = << >>)
    => downloads = c_cfg.initial

\* a dry run that ended with a record changed
C38_DryRunChanged ==
  /\ c_pc = "exit" /\ c_cfg.dry_run
  /\ \E i \in DOMAIN downloads : ~AsAtStart(i)

\* the write-back of a decision of this run set the record at position i
\* to in_progress
WrittenBack(i) ==
  \E n \in DOMAIN c_trace :
    /\ c_trace[n].kind = "ask"
    /\ c_trace[n].found # << >>
    /\ WriteBackStatus(c_trace[n].decision) = IN_PROGRESS
    /\ Matches(downloads[i], c_trace[n].video_id, c_trace[n].url)

\* the record at position i got the status in_progress during the run: it
\* was written back to, or it did not have that status at the start
SetInProgress(i) ==
  \/ WrittenBack(i)
  \/ i \notin DOMAIN c_cfg.initial
  \/ c_cfg.initial[i].status # IN_PROGRESS

\* the run ended, was no dry run, and no history operation failed
EndedWithHistory ==
  /\ c_pc = "exit"
  /\ ~c_cfg.dry_run
  /\ r_hist
  /\ r_faults = << >>

\* C39: when a run that is no dry run ends and its history writes
\* succeeded, no record that was set to in_progress during the run, by a
\* write-back or by a pre-download event, still has status in_progress.
C39_NoInProgressLeft ==
  EndedWithHistory =>
    \A i \in DOMAIN downloads :
      SetInProgress(i) => downloads[i].status # IN_PROGRESS

\* the same for the records the in_progress events of the downloads made
\* or changed, in the runs without a write-back to in_progress
C39_EventsOverwritten ==
  (EndedWithHistory /\ \A i \in DOMAIN downloads : ~WrittenBack(i)) =>
    \A i \in DOMAIN downloads :
      SetInProgress(i) => downloads[i].status # IN_PROGRESS

\* a plain run for one video whose record was written back to in_progress
\* and whose download failed before any info: the failed event went to
\* another key and the record is still in_progress at the exit
C39_StaleAfterFailedPreview ==
  /\ EndedWithHistory
  /\ c_cfg.mode = "plain" /\ c_cfg.urls = << URL_VK >>
  /\ r_trace = << "preview raises" >>
  /\ \E i \in DOMAIN downloads :
       /\ downloads[i].video_id = VK_ID
       /\ WrittenBack(i)
       /\ downloads[i].status = IN_PROGRESS

(***************************************************************************)
(* Claims about the url of a record.                                       *)
(***************************************************************************)
\* the last logged operation is a record_event whose key was in the table
LastConflicted == LastIsRecord /\ RowsWithKey(prev, LastKey) # {}

\* C40: on a key conflict record_event replaces the stored url with the
\* url of the incoming event (the last write wins, the url is not
\* coalesced), so fetch(url=<earlier url>) matches the record afterwards
\* only if the later event carried the same url string.
C40_LastUrlWins ==
  LastConflicted =>
    \A i \in RowsWithKey(downloads, LastKey) :
      /\ downloads[i].url = LastEvent.url
      /\ \A j \in RowsWithKey(prev, LastKey) :
           Matches(downloads[i], EMPTY, prev[j].url)
             <=> (prev[j].url # EMPTY /\ LastEvent.url = prev[j].url)

\* a later event for the key of a stored record carried another url: the
\* fetch by the earlier url finds nothing any more
C40_Witness ==
  /\ LastConflicted
  /\ \E j \in RowsWithKey(prev, LastKey) :
       /\ prev[j].url # LastEvent.url
       /\ fetch_download(downloads, EMPTY, prev[j].url) = << >>
       /\ fetch_download(prev, EMPTY, prev[j].url) # << >>

\* a later event with the url of the stored record: the fetch by that url
\* still returns the record
C40_SameUrl ==
  /\ LastConflicted
  /\ \E j \in RowsWithKey(prev, LastKey) :
       /\ prev[j].url = LastEvent.url
       /\ fetch_download(downloads, EMPTY, prev[j].url) # << >>
       /\ fetch_download(downloads, EMPTY, prev[j].url)[1].video_id = LastKey
====
